---- MODULE Spec2Model ----
(***************************************************************************)
(* Model of the Git History Analyzer (rust_core/src/git_analyzer.rs).      *)
(*                                                                         *)
(* Spec        : analyze_git_repository, the orchestrator, called with a   *)
(*               positive window: the two path checks, the nested          *)
(*               rayon::join over the four parallel aspects, the           *)
(*               sequential tail (lines 176-180), the assembly of the      *)
(*               report, and every git command each aspect issues, with a  *)
(*               calendar date that may change before any reading of the   *)
(*               clock.                                                    *)
(* SpecAnyWindow : the same, called with any window, zero days included.   *)
(* SpecContrib : get_contributor_insights alone, on pass-1 log texts of    *)
(*               several lines (the text is formatted, split and trimmed   *)
(*               character by character).                                  *)
(* SpecParse :      parse_git_log_with_stats on logs of a few lines.       *)
(* SpecTotal :      the three line parsers on lines of any shape.          *)
(* SpecChurn :      get_code_churn on one log output.                      *)
(* SpecChurnTwice : two runs of get_code_churn on one log output.          *)
(* SpecHistory :    get_commit_history on one log output.                  *)
(* SpecDecisions :  find_architectural_decisions on the commits of a       *)
(*                  window.                                                *)
(* SpecRelease :    analyze_release_patterns on the tags of a repository.  *)
(* SpecBranches :   get_branch_analysis on one output of git branch, the   *)
(*                  clock read at every call of is_branch_active.          *)
(* SpecInfo :       get_repository_info on the outcomes of its five        *)
(*                  commands.                                              *)
(* SpecExecute :    execute_git_command on what the spawned process does.  *)
(*                                                                         *)
(* Text is a sequence of one-character strings.                            *)
(***************************************************************************)
EXTENDS Integers, Sequences, FiniteSets, TLC

VARIABLES
    pathExists,     \* Path::new(repo_path).exists()
    gitExists,      \* path.join(".git").exists()
    days,           \* the lookback window passed by the caller
    today,          \* the calendar date of chrono::Local::now(), a day number
    pc,             \* position of the thread running analyze_git_repository
    st,             \* aspect -> "idle" | "running" | "ok" | "err"
    step,           \* aspect -> number of its git commands that have returned
    since,          \* aspect -> <<since_date>> once computed, <<>> before
    hist,           \* args of an issued command -> outcomes of its executions, in order
    usedDays,       \* day counts from which a since_date was computed
    remote_url,     \* "unset" | "some" | "none" (Option<String> of get_repository_info)
    contribLog,     \* pass-1 log output of get_contributor_insights (lines)
    counts,         \* contributor_counts  (email -> commits)
    names,          \* contributor_names   (email -> display name)
    pending,        \* emails whose par_iter task has not run yet
    contributors,   \* the collected Vec<ContributorInsight>
    tagNames,       \* tag_names of analyze_release_patterns
    recentTags,     \* recent_tags collected so far
    chResult,       \* <<CommitHistory>> returned by get_commit_history, <<>> if none
    dpInput,        \* <<CommitHistory>> analyze_development_patterns was called with
    result,         \* what analyze_git_repository returned
    report,         \* the aspects filled in the returned GitAnalysis
    entries,        \* what git prints for the command of the function below
    fn,             \* the function that has been applied to entries, "none" before
    out             \* <<how the call of that function ended>>, <<>> before

vars == <<pathExists, gitExists, days, today, pc, st, step, since, hist, usedDays,
          remote_url, contribLog, counts, names, pending, contributors, tagNames,
          recentTags, chResult, dpInput, result, report, entries, fn, out>>

----------------------------------------------------------------------------
(* Bounds *)

MaxDays == 1
MaxTicks == 1
MaxTags == 1
MaxLogLen == 3
MaxParseLen == 3
MaxChurnLen == 3
MaxPaths == 21
MaxTimes == 6
MaxShuffled == 3
MaxCommits == 51
MaxListed == 52
MaxDetailed == 2
MaxBranches == 3

----------------------------------------------------------------------------
(* Aspects, in the order of the fields of GitAnalysis *)

RI == "repo_info"
CH == "commit_history"
BA == "branch_analysis"
CI == "contributors"
CC == "code_churn"
DP == "dev_patterns"
AD == "arch_decisions"
RP == "release_patterns"

ParallelAspects == {RI, CH, BA, CI}

SequentialAspects == {CC, DP, AD, RP}

Aspects == ParallelAspects \cup SequentialAspects

Completed(a) == st[a] \in {"ok", "err"}

----------------------------------------------------------------------------
(* Text *)

\* str::split(c): the pieces between the occurrences of c (always at least one).
Split(s, c) ==
    LET RECURSIVE go(_, _, _)
        go(i, cur, acc) ==
            IF i > Len(s) THEN Append(acc, cur)
            ELSE IF s[i] = c THEN go(i + 1, <<>>, Append(acc, cur))
            ELSE go(i + 1, Append(cur, s[i]), acc)
    IN go(1, <<>>, <<>>)

\* char::is_whitespace(), on the characters used here.
IsWhitespace(ch) == ch \in {" ", "\t", "\n"}

\* str::trim(): without its leading and trailing whitespace.
Trim(s) ==
    LET keep == {i \in 1..Len(s) : ~IsWhitespace(s[i])}
    IN IF keep = {} THEN <<>>
       ELSE LET lo == CHOOSE i \in keep : \A j \in keep : i <= j
                hi == CHOOSE i \in keep : \A j \in keep : j <= i
            IN SubSeq(s, lo, hi)

\* git's --format=%aN|%aE for one commit.
FormatNameEmail(name, email) == name \o <<"|">> \o email

\* for x in seq { acc = Step(acc, x) }: acc after the loop. The elements are
\* taken in order. The range is halved to keep the recursion shallow, and the
\* comparison has the left half evaluated before the right half is entered.
Fold(Step(_, _), init, seq) ==
    LET RECURSIVE go(_, _, _)
        go(lo, hi, acc) ==
            IF lo > hi THEN acc
            ELSE IF lo = hi THEN Step(acc, seq[lo])
            ELSE LET left == go(lo, (lo + hi) \div 2, acc)
                 IN IF left = left THEN go(((lo + hi) \div 2) + 1, hi, left) ELSE left
    IN go(1, Len(seq), init)

\* *map.entry(key).or_insert(0) += 1
Increment(map, key) ==
    (key :> (IF key \in DOMAIN map THEN map[key] + 1 ELSE 1)) @@ map

DecimalDigits == <<"0", "1", "2", "3", "4", "5", "6", "7", "8", "9">>

\* char::is_numeric(), on the characters used here.
IsNumeric(ch) == \E d \in 1..Len(DecimalDigits) : DecimalDigits[d] = ch

DigitValue(ch) == (CHOOSE d \in 1..Len(DecimalDigits) : DecimalDigits[d] = ch) - 1

\* str::contains(char)
ContainsChar(s, c) == \E i \in 1..Len(s) : s[i] = c

\* str::split_whitespace(): the non-empty pieces between runs of whitespace.
SplitWhitespace(s) ==
    LET Close(cur, acc) == IF cur = <<>> THEN acc ELSE Append(acc, cur)
        RECURSIVE go(_, _, _)
        go(i, cur, acc) ==
            IF i > Len(s) THEN Close(cur, acc)
            ELSE IF IsWhitespace(s[i]) THEN go(i + 1, <<>>, Close(cur, acc))
            ELSE go(i + 1, Append(cur, s[i]), acc)
    IN go(1, <<>>, <<>>)

\* [&str]::join(sep)
Join(parts, sep) ==
    LET RECURSIVE go(_, _)
        go(i, acc) ==
            IF i > Len(parts) THEN acc
            ELSE go(i + 1, IF i = 1 THEN parts[i] ELSE acc \o sep \o parts[i])
    IN go(1, <<>>)

\* str::parse::<usize>(): <<n>> for Ok(n), <<>> for Err. An optional '+' and
\* then one or more decimal digits.
ParseUsize(s) ==
    LET body == IF s # <<>> /\ s[1] = "+" THEN Tail(s) ELSE s
        RECURSIVE value(_, _)
        value(i, acc) ==
            IF i > Len(body) THEN acc
            ELSE value(i + 1, acc * 10 + DigitValue(body[i]))
    IN IF body # <<>> /\ \A i \in 1..Len(body) : IsNumeric(body[i])
       THEN <<value(1, 0)>>
       ELSE <<>>

\* The decimal digits of a count, as git prints it.
ShowNat(n) ==
    LET RECURSIVE go(_, _)
        go(m, acc) ==
            IF m < 10 THEN <<DecimalDigits[m + 1]>> \o acc
            ELSE go(m \div 10, <<DecimalDigits[(m % 10) + 1]>> \o acc)
    IN go(n, <<>>)

\* A number printed with two digits at least (%m, %d, %H, %M, %S).
Pad2(n) == IF n < 10 THEN <<"0">> \o ShowNat(n) ELSE ShowNat(n)

UpperCase == <<"A", "B", "C", "D", "E", "F", "G", "H", "I", "J", "K", "L", "M",
             "N", "O", "P", "Q", "R", "S", "T", "U", "V", "W", "X", "Y", "Z">>

LowerCase == <<"a", "b", "c", "d", "e", "f", "g", "h", "i", "j", "k", "l", "m",
             "n", "o", "p", "q", "r", "s", "t", "u", "v", "w", "x", "y", "z">>

\* str::to_lowercase(), on the characters used here.
ToLowercase(s) ==
    [i \in 1..Len(s) |->
        IF \E k \in 1..Len(UpperCase) : UpperCase[k] = s[i]
        THEN LowerCase[CHOOSE k \in 1..Len(UpperCase) : UpperCase[k] = s[i]]
        ELSE s[i]]

\* str::contains(&str)
Contains(s, t) == \E i \in 1..(Len(s) - Len(t) + 1) : SubSeq(s, i, i + Len(t) - 1) = t

\* str::split_once(char::is_whitespace): <<before, after>> the first whitespace
\* character, <<>> if there is none.
SplitOnceWhitespace(s) ==
    LET at == {i \in 1..Len(s) : IsWhitespace(s[i])}
    IN IF at = {} THEN <<>>
       ELSE LET i == CHOOSE k \in at : \A j \in at : k <= j
            IN <<SubSeq(s, 1, i - 1), SubSeq(s, i + 1, Len(s))>>

\* Result::unwrap_or(default) of a parse.
UnwrapOr(parsed, default) == IF parsed = <<>> THEN default ELSE parsed[1]

----------------------------------------------------------------------------
(* What git log prints: one entry per line *)

\* A commit, printed by --format=%H|%an|%ae|%ai|%s (line 247) as its fields
\* with '|' between them.
Commit(hash, author, email, date, subject) ==
    [kind |-> "commit", fields |-> <<hash, author, email, date, subject>>,
     ins |-> 0, del |-> 0]

\* A header line that lacks the date and the subject.
ShortHeader(hash, author, email) ==
    [kind |-> "commit", fields |-> <<hash, author, email>>, ins |-> 0, del |-> 0]

\* A file of the commit above it, printed by --numstat (line 248) as
\* insertions, deletions and path with tabs between them.
Numstat(ins, del, path) ==
    [kind |-> "numstat", fields |-> <<path>>, ins |-> ins, del |-> del]

\* A binary file of the commit above it: --numstat prints '-' for both counts.
Binary(path) == [kind |-> "binary", fields |-> <<path>>, ins |-> 0, del |-> 0]

\* The empty line git prints between a header and its files.
Blank == [kind |-> "blank", fields |-> <<>>, ins |-> 0, del |-> 0]

\* A branch, printed by
\* --format=%(refname:short)|%(committerdate:iso)|%(ahead-behind:HEAD) (line 282).
Branch(name, date, ahead_behind) ==
    [kind |-> "branch", fields |-> <<name, date, ahead_behind>>, ins |-> 0, del |-> 0]

\* A branch line that lacks the ahead-behind field.
ShortBranch(name, date) ==
    [kind |-> "branch", fields |-> <<name, date>>, ins |-> 0, del |-> 0]

\* A commit found by --grep, printed by --format=%H|%ai|%an|%s (line 481).
Hit(hash, date, author, subject) ==
    [kind |-> "hit", fields |-> <<hash, date, author, subject>>, ins |-> 0, del |-> 0]

\* A tag, printed by git show --format=%H|%ai|%s --no-patch (line 752).
Shown(hash, date, subject) ==
    [kind |-> "shown", fields |-> <<hash, date, subject>>, ins |-> 0, del |-> 0]

\* An annotated tag: git show prints the tag object first, beginning with the
\* line "tag <name>", and the commit after it.
ShownTagObject(name) == [kind |-> "tagobject", fields |-> <<name>>, ins |-> 0, del |-> 0]

\* A command that exits with a non-zero status and prints nothing.
Failing == [kind |-> "failed", fields |-> <<>>, ins |-> 0, del |-> 0]

\* A command that exits with status zero and has printed this text.
Printed(text) == [kind |-> "printed", fields |-> <<text>>, ins |-> 0, del |-> 0]

FormatEntry(e) ==
    CASE e.kind \in {"commit", "branch", "hit", "shown"} -> Join(e.fields, <<"|">>)
      [] e.kind = "printed" -> e.fields[1]
      [] e.kind = "tagobject" -> <<"t", "a", "g", " ">> \o e.fields[1]
      [] e.kind = "numstat" ->
            ShowNat(e.ins) \o <<"\t">> \o ShowNat(e.del) \o <<"\t">> \o e.fields[1]
      [] e.kind = "binary" -> <<"-", "\t", "-", "\t">> \o e.fields[1]
      [] OTHER -> <<>>

\* log_output.lines() of the output that holds these entries.
Lines(es) == [i \in 1..Len(es) |-> FormatEntry(es[i])]

----------------------------------------------------------------------------
(* parse_git_log_with_stats, lines 580-622 *)

\* Line 585: the line opens a commit.
IsHeaderLine(line) ==
    /\ ContainsChar(line, "|")
    /\ ~(line # <<>> /\ IsNumeric(line[1]))

\* The message is cut at the first pipe of the subject.
CommitInfoCutSubject(parts) ==
    [hash |-> parts[1], author |-> parts[2], email |-> parts[3], date |-> parts[4],
     message |-> parts[5],
     files_changed |-> 0, insertions |-> 0, deletions |-> 0]

\* Lines 593-602
CommitInfo(parts) ==
    [hash |-> parts[1], author |-> parts[2], email |-> parts[3], date |-> parts[4],
     message |-> Join(SubSeq(parts, 5, Len(parts)), <<"|">>),
     files_changed |-> 0, insertions |-> 0, deletions |-> 0]

\* Lines 606-613: a numstat line is added to the commit, any other line is not.
AddStat(commit, line) ==
    LET parts == SplitWhitespace(line)
    IN IF Len(parts) >= 3 /\ ParseUsize(parts[1]) # <<>> /\ ParseUsize(parts[2]) # <<>>
       THEN [commit EXCEPT !.insertions = @ + ParseUsize(parts[1])[1],
                           !.deletions = @ + ParseUsize(parts[2])[1],
                           !.files_changed = @ + 1]
       ELSE commit

\* A header line with fewer than five fields is passed over: the commit
\* before it stays open.
OpenCommitIfComplete(loop, line) ==
    IF Len(Split(line, "|")) >= 5
    THEN [commits |-> loop.commits \o loop.current_commit,
          current_commit |-> <<CommitInfo(Split(line, "|"))>>]
    ELSE loop

\* Lines 587-603: the commit before the header line is closed, and a new one
\* is opened if the line has the five fields.
OpenCommit(loop, line) ==
    [commits |-> loop.commits \o loop.current_commit,
     current_commit |->
         IF Len(Split(line, "|")) >= 5
         THEN <<CommitInfo(Split(line, "|"))>> ELSE <<>>]

\* Lines 584-621. current_commit is <<>> for None and <<commit>> for Some(commit).
parse_git_log_with_stats(lines) ==
    LET Line(loop, line) ==
            IF IsHeaderLine(line)
            THEN OpenCommit(loop, line)
            ELSE IF loop.current_commit # <<>>
            THEN [loop EXCEPT !.current_commit = <<AddStat(@[1], line)>>]
            ELSE loop
        end == Fold(Line, [commits |-> <<>>, current_commit |-> <<>>], lines)
    IN end.commits \o end.current_commit

----------------------------------------------------------------------------
(* How a call ends: it returns a value, or it panics *)

Ok(value) == [panicked |-> FALSE, value |-> value]

Panic == [panicked |-> TRUE, value |-> <<>>]

\* Option<T>: the value of None is <<>>, that of Some(x) is <<x>>.
None == Ok(<<>>)

Some(x) == Ok(<<x>>)

\* parts[n - 1] is inside the slice; indexing outside it panics.
InBounds(parts, n) == n <= Len(parts)

\* lines.filter_map(f).collect(), and the push loop of lines 485-489: the
\* records of the lines for which f returns one, in line order.
FilterMap(lines, F(_)) ==
    LET RECURSIVE go(_, _)
        go(i, acc) ==
            IF i > Len(lines) THEN Ok(acc)
            ELSE IF F(lines[i]).panicked THEN Panic
            ELSE go(i + 1, acc \o F(lines[i]).value)
    IN go(1, <<>>)

----------------------------------------------------------------------------
(* parse_branch_info, lines 624-647 *)

\* The line is taken to have the three fields when it has two.
BranchFieldsMissingOffByOne(parts) == Len(parts) < 2

\* Line 626
BranchFieldsMissing(parts) == Len(parts) < 3

parse_branch_info(line) ==
    LET parts == Split(line, "|")
    IN IF BranchFieldsMissing(parts) THEN None
       ELSE IF ~InBounds(parts, 3) THEN Panic
       ELSE LET pair == SplitOnceWhitespace(Trim(parts[3]))
            IN Some([name |-> Trim(parts[1]),
                     last_commit_date |-> Trim(parts[2]),
                     commits_ahead |->
                         IF pair = <<>> THEN 0 ELSE UnwrapOr(ParseUsize(pair[1]), 0),
                     commits_behind |->
                         IF pair = <<>> THEN 0 ELSE UnwrapOr(ParseUsize(pair[2]), 0),
                     is_merged |-> FALSE])

----------------------------------------------------------------------------
(* parse_architectural_decision, lines 723-747 *)

Breaking == <<"b", "r", "e", "a", "k", "i", "n", "g">>

Major == <<"m", "a", "j", "o", "r">>

Minor == <<"m", "i", "n", "o", "r">>

Fix == <<"f", "i", "x">>

\* Lines 731-737
Impact(message) ==
    IF Contains(ToLowercase(message), Breaking) \/ Contains(ToLowercase(message), Major)
    THEN "high"
    ELSE IF Contains(ToLowercase(message), Minor) \/ Contains(ToLowercase(message), Fix)
    THEN "low"
    ELSE "medium"

parse_architectural_decision(line, keyword) ==
    LET parts == Split(line, "|")
    IN IF Len(parts) < 4 THEN None
       ELSE IF ~InBounds(parts, 4) THEN Panic
       ELSE Some([commit_hash |-> parts[1], date |-> parts[2], author |-> parts[3],
                  message |-> parts[4], decision_type |-> keyword,
                  impact |-> Impact(parts[4])])

----------------------------------------------------------------------------
(* get_tag_info, lines 755-766: the record of the output of git show *)

TagInfo(tag, lines) ==
    IF lines = <<>> THEN None
    ELSE LET parts == Split(lines[1], "|")
         IN IF Len(parts) < 3 THEN None
            ELSE IF ~InBounds(parts, 3) THEN Panic
            ELSE Some([name |-> tag, commit_hash |-> parts[1], date |-> parts[2],
                       message |-> parts[3]])

----------------------------------------------------------------------------
(* get_code_churn, lines 361-401: from the log output to the CodeChurn *)

Min(a, b) == IF a <= b THEN a ELSE b

TopFiles == 20

HotspotThreshold == 5

\* Lines 363-374: file_changes, path -> (times, insertions, deletions).
FileChanges(lines) ==
    LET Add(map, path, ins, del) ==
            LET entry == IF path \in DOMAIN map THEN map[path] ELSE <<0, 0, 0>>
            IN (path :> <<entry[1] + 1, entry[2] + ins, entry[3] + del>>) @@ map
        Line(file_changes, line) ==
            LET parts == SplitWhitespace(line)
            IN IF /\ Len(parts) >= 3
                  /\ ParseUsize(parts[1]) # <<>>
                  /\ ParseUsize(parts[2]) # <<>>
               THEN Add(file_changes, parts[3],
                        ParseUsize(parts[1])[1], ParseUsize(parts[2])[1])
               ELSE file_changes
    IN Fold(Line, <<>>, lines)

\* The orders in which a HashMap may hand out its keys: any order.
KeyOrders(S) ==
    {order \in [1..Cardinality(S) -> S] :
        \A i, j \in 1..Cardinality(S) : order[i] = order[j] => i = j}

\* The vector is left in the order the map handed it out.
Unsorted(v) == v

\* Line 377: sort_by(|a, b| b.1.0.cmp(&a.1.0)), a stable sort, most changes first.
SortByTimesDescending(v) ==
    LET Insert(sorted, x) ==
            LET before == {i \in 1..Len(sorted) : sorted[i][2][1] >= x[2][1]}
                n == Cardinality(before)
            IN SubSeq(sorted, 1, n) \o <<x>> \o SubSeq(sorted, n + 1, Len(sorted))
    IN Fold(Insert, <<>>, v)

\* Nothing is cut off.
TakeAll(v, n) == v

\* Iterator::take(n)
Take(v, n) == SubSeq(v, 1, Min(n, Len(v)))

\* Lines 382-388
FileChurn(pair) ==
    [path |-> pair[1], times_changed |-> pair[2][1], total_insertions |-> pair[2][2],
     total_deletions |-> pair[2][3], last_modified |-> <<>>]

\* Lines 391-395
Hotspots(most_changed_files) ==
    LET hot == SelectSeq(most_changed_files,
                         LAMBDA f : f.times_changed > HotspotThreshold)
    IN [i \in 1..Len(hot) |-> hot[i].path]

\* Lines 376-401, for the order in which file_changes hands out its entries.
CodeChurn(file_changes, order) ==
    LET most_changed ==
            SortByTimesDescending([i \in 1..Len(order) |->
                                      <<order[i], file_changes[order[i]]>>])
        top == Take(most_changed, TopFiles)
        most_changed_files == [i \in 1..Len(top) |-> FileChurn(top[i])]
    IN [most_changed_files |-> most_changed_files,
        total_files_ever_changed |-> Len(most_changed),
        hotspots |-> Hotspots(most_changed_files)]

----------------------------------------------------------------------------
(* get_commit_history, lines 252-278: from the log output to the CommitHistory *)

RecentCommits == 50

DaysPerWeek == 7

\* An f64 that is the quotient of two integers, the second one positive.
Ratio(num, den) == [num |-> num, den |-> den]

\* f64::max
RatioMax(a, b) == IF a.num * b.den >= b.num * a.den THEN a ELSE b

\* The window is divided by seven without a floor.
WeeksNoFloor(n) == Ratio(n, DaysPerWeek)

\* Line 270: (days as f64 / 7.0).max(1.0)
Weeks(n) == RatioMax(Ratio(n, DaysPerWeek), Ratio(1, 1))

\* Line 271: commits.len() as f64 / weeks
Average(len, weeks) == Ratio(len * weeks.den, weeks.num)

\* Lines 258-261: the bucket of the month of the commit, if its date has one.
ByMonth(map, commit) ==
    LET pieces == Take(Split(commit.date, "-"), 2)
    IN IF Len(pieces) >= 2 THEN Increment(map, Join(pieces, <<"-">>)) ELSE map

\* Lines 265-267: the bucket of the date of the commit, if it has one.
ByDay(map, commit) ==
    LET words == SplitWhitespace(commit.date)
    IN IF words # <<>> THEN Increment(map, words[1]) ELSE map

CommitHistory(lines, n) ==
    LET commits == parse_git_log_with_stats(lines)
    IN [recent_commits |-> Take(commits, RecentCommits),
        commits_by_month |-> Fold(ByMonth, <<>>, commits),
        commits_by_day_of_week |-> Fold(ByDay, <<>>, commits),
        average_commits_per_week |-> Average(Len(commits), Weeks(n))]

----------------------------------------------------------------------------
(* Dates: git's %ai and chrono's NaiveDateTime *)

\* A point of local time: the day (day 0 is 2023-01-01) and the second of
\* that day.
At(day, sec) == [day |-> day, sec |-> sec]

IsLeap(y) == (y % 4 = 0 /\ y % 100 # 0) \/ y % 400 = 0

YearLength(y) == IF IsLeap(y) THEN 366 ELSE 365

MonthLength(y, m) ==
    IF m = 2 THEN (IF IsLeap(y) THEN 29 ELSE 28)
    ELSE IF m \in {4, 6, 9, 11} THEN 30
    ELSE 31

\* The calendar date of a day, found by walking the years and the months
\* from 2023-01-01.
CivilFromDay(day) ==
    LET RECURSIVE months(_, _, _)
        months(y, m, rest) ==
            IF rest >= MonthLength(y, m) THEN months(y, m + 1, rest - MonthLength(y, m))
            ELSE [year |-> y, month |-> m, day |-> rest + 1]
        RECURSIVE years(_, _)
        years(y, rest) ==
            IF rest >= YearLength(y) THEN years(y + 1, rest - YearLength(y))
            ELSE months(y, 1, rest)
    IN years(2023, day)

\* %ai: the date as YYYY-MM-DD HH:MM:SS and the offset of its time zone.
FormatAi(t, zone) ==
    LET c == CivilFromDay(t.day)
    IN ShowNat(c.year) \o <<"-">> \o Pad2(c.month) \o <<"-">> \o Pad2(c.day) \o <<" ">>
           \o Pad2(t.sec \div 3600) \o <<":">> \o Pad2((t.sec % 3600) \div 60)
           \o <<":">> \o Pad2(t.sec % 60) \o <<" ">> \o zone

\* The number written by the digits of s.
Number(s) == UnwrapOr(ParseUsize(s), 0)

AllNumeric(s) == s # <<>> /\ \A i \in 1..Len(s) : IsNumeric(s[i])

\* The days from 1970-01-01 to a calendar date (NaiveDate, proleptic
\* Gregorian).
DaysFromCivil(y, m, d) ==
    LET yy == IF m <= 2 THEN y - 1 ELSE y
        era == yy \div 400
        yoe == yy - era * 400
        mp == IF m > 2 THEN m - 3 ELSE m + 9
        doy == ((153 * mp + 2) \div 5) + d - 1
        doe == yoe * 365 + (yoe \div 4) - (yoe \div 100) + doy
    IN era * 146097 + doe - 719468

\* The day that At counts from, as a NaiveDate.
DayZero == DaysFromCivil(2023, 1, 1)

\* NaiveDateTime::parse_from_str(text, "%Y-%m-%d %H:%M:%S"): <<the point of
\* time>> for Ok, <<>> for Err. The text is a date and a time of day, each of
\* three numbers, with one space between them and nothing after them.
ParseNaiveDateTime(text) ==
    LET halves == Split(text, " ")
        ymd == IF Len(halves) = 2 THEN Split(halves[1], "-") ELSE <<>>
        hms == IF Len(halves) = 2 THEN Split(halves[2], ":") ELSE <<>>
    IN IF /\ Len(ymd) = 3
          /\ Len(hms) = 3
          /\ \A i \in 1..3 : AllNumeric(ymd[i]) /\ AllNumeric(hms[i])
          /\ Len(ymd[1]) <= 4 /\ Len(ymd[2]) <= 2 /\ Len(ymd[3]) <= 2
          /\ \A i \in 1..3 : Len(hms[i]) <= 2
          /\ Number(ymd[2]) \in 1..12
          /\ Number(ymd[3]) \in 1..MonthLength(Number(ymd[1]), Number(ymd[2]))
          /\ Number(hms[1]) < 24
          /\ Number(hms[2]) < 60
          /\ Number(hms[3]) < 60
       THEN <<At(DaysFromCivil(Number(ymd[1]), Number(ymd[2]), Number(ymd[3])) - DayZero,
                Number(hms[1]) * 3600 + Number(hms[2]) * 60 + Number(hms[3]))>>
       ELSE <<>>

\* text.split_whitespace().take(2).collect::<Vec<_>>().join(" "), parsed
\* (lines 214-217, 219-222, 523-530 and 650-653).
ParseDateAndTime(text) ==
    ParseNaiveDateTime(Join(Take(SplitWhitespace(text), 2), <<" ">>))

\* The seconds from b to a.
SecondsBetween(a, b) == (a.day - b.day) * 86400 + (a.sec - b.sec)

\* The whole days are taken with floor, which rounds a negative duration
\* away from zero.
NumDaysFloor(a, b) == SecondsBetween(a, b) \div 86400

\* (a - b).num_days(): the whole days of the duration, rounded toward zero.
NumDays(a, b) ==
    IF SecondsBetween(a, b) >= 0
    THEN SecondsBetween(a, b) \div 86400
    ELSE 0 - ((0 - SecondsBetween(a, b)) \div 86400)

\* i64::abs
Abs(n) == IF n < 0 THEN 0 - n ELSE n

----------------------------------------------------------------------------
(* analyze_release_patterns, lines 495-549, on the listed tags and on what
   git show prints for each of them *)

\* Line 503: take(10)
TagInfoCap == 10

WeeklyAbove == 50

MonthlyAbove == 20

QuarterlyAbove == 5

\* The tags counted are the ones whose details are asked for.
TotalTagsFetched(tag_names) == Min(Len(tag_names), TagInfoCap)

\* Line 499
TotalTags(tag_names) == Len(tag_names)

\* Lines 507-515
Frequency(total_tags) ==
    IF total_tags > WeeklyAbove THEN "Weekly"
    ELSE IF total_tags > MonthlyAbove THEN "Monthly"
    ELSE IF total_tags > QuarterlyAbove THEN "Quarterly"
    ELSE "Irregular"

\* get_tag_info (lines 749-767) for a tag whose git show ends as shown.
TagInfoOf(tag, shown) ==
    IF shown.kind = "failed" THEN None ELSE TagInfo(tag, Lines(<<shown>>))

\* Lines 501-505
RecentTags(tag_names, shows) ==
    FilterMap([i \in 1..Min(Len(tag_names), TagInfoCap) |-> i],
              LAMBDA i : TagInfoOf(tag_names[i], shows[i]))

\* Lines 518-535: the gaps of the pairs of neighbours whose dates both parse.
Gaps(recent_tags) ==
    LET Pair(acc, i) ==
            LET d1 == ParseDateAndTime(recent_tags[i].date)
                d2 == ParseDateAndTime(recent_tags[i + 1].date)
            IN IF d1 # <<>> /\ d2 # <<>>
               THEN [total_days |-> acc.total_days + Abs(NumDays(d1[1], d2[1])),
                     count |-> acc.count + 1]
               ELSE acc
    IN Fold(Pair, [total_days |-> 0, count |-> 0],
            [i \in 1..(IF Len(recent_tags) = 0 THEN 0 ELSE Len(recent_tags) - 1) |-> i])

\* Lines 537-541
AverageDays(gaps) ==
    IF gaps.count > 0 THEN Ratio(gaps.total_days, gaps.count) ELSE Ratio(0, 1)

ReleasePatterns(tag_names, shows) ==
    LET recent_tags == RecentTags(tag_names, shows)
    IN IF recent_tags.panicked THEN Panic
       ELSE Ok([total_tags |-> TotalTags(tag_names),
                recent_tags |-> recent_tags.value,
                average_days_between_releases |-> AverageDays(Gaps(recent_tags.value)),
                release_frequency |-> Frequency(TotalTags(tag_names))])

----------------------------------------------------------------------------
(* get_branch_analysis, lines 281-309, on the output of git branch *)

\* Lines 291 and 297: the activity threshold, in days.
ActivityThreshold == 30

\* is_branch_active, lines 649-660; now is what chrono::Local::now() returns
\* to this call.
is_branch_active(last_commit_date, threshold, now) ==
    LET date == ParseDateAndTime(last_commit_date)
    IN IF date # <<>> THEN NumDays(now, date[1]) <= threshold ELSE FALSE

\* Lines 284-308. The filter of line 291 runs over all the branches before
\* the filter of line 297 does, and each call of is_branch_active reads the
\* clock: clock[i] is the i-th reading.
BranchAnalysis(lines, clock) ==
    LET parsed == FilterMap(lines, parse_branch_info)
    IN IF parsed.panicked THEN Panic
       ELSE LET branches == parsed.value
                n == Len(branches)
                at == [i \in 1..n |-> i]
                active == SelectSeq(at, LAMBDA i :
                              is_branch_active(branches[i].last_commit_date,
                                               ActivityThreshold, clock[i]))
                stale == SelectSeq(at, LAMBDA i :
                              ~is_branch_active(branches[i].last_commit_date,
                                                ActivityThreshold, clock[n + i]))
            IN Ok([total_branches |-> n,
                   active_branches |-> [k \in 1..Len(active) |-> branches[active[k]]],
                   stale_branches |-> [k \in 1..Len(stale) |-> branches[stale[k]]],
                   merged_branches_count |->
                       Cardinality({i \in 1..n : branches[i].is_merged})])

----------------------------------------------------------------------------
(* get_repository_info, lines 194-235, on the outcomes of its five commands *)

\* Result<T, String>
ResultOk(x) == Ok([is_ok |-> TRUE, it |-> x])

ResultErr(e) == Ok([is_ok |-> FALSE, it |-> e])

\* The date is parsed with its zone offset: nothing is cut from the text.
ParseWithZone(text) == ParseNaiveDateTime(Trim(text))

\* The boundary dates of lines 214-222.
BoundaryDate(text) == ParseDateAndTime(Trim(text))

\* outs: what the commands of lines 195, 196, 198, 203 and 208 end with.
RepositoryInfo(outs) ==
    LET failed(i) == outs[i].kind = "failed"
        stdout(i) == FormatEntry(outs[i])
        total_commits == ParseUsize(Trim(stdout(3)))
        first_date == BoundaryDate(stdout(4))
        last_date == BoundaryDate(stdout(5))
    IN IF failed(1) THEN ResultErr("command")
       ELSE IF failed(3) THEN ResultErr("command")
       ELSE IF total_commits = <<>> THEN ResultErr("Failed to parse commit count")
       ELSE IF failed(4) THEN ResultErr("command")
       ELSE IF failed(5) THEN ResultErr("command")
       ELSE IF first_date = <<>> THEN ResultErr("Failed to parse first commit date")
       ELSE IF last_date = <<>> THEN ResultErr("Failed to parse last commit date")
       ELSE ResultOk([remote_url |-> IF failed(2) THEN <<>> ELSE <<stdout(2)>>,
                      default_branch |-> Trim(stdout(1)),
                      total_commits |-> total_commits[1],
                      first_commit_date |-> Trim(stdout(4)),
                      last_commit_date |-> Trim(stdout(5)),
                      repository_age_days |-> NumDays(last_date[1], first_date[1])])

----------------------------------------------------------------------------
(* execute_git_command, lines 553-578, on what the spawned process does *)

\* A byte of the output that is part of no UTF-8 character, and the
\* character U+FFFD.
InvalidByte == "0xFF"

ReplacementCharacter == "U+FFFD"

\* String::from_utf8_lossy(bytes).to_string()
FromUtf8Lossy(bytes) ==
    [i \in 1..Len(bytes) |-> IF bytes[i] = InvalidByte THEN ReplacementCharacter ELSE bytes[i]]

\* A status of one counts as a success too.
ExitBelowTwo(status) == status < 2

\* Line 567: output.status.success()
ExitSuccess(status) == status = 0

\* Lines 557-577. process is what `git -C repo_path args` does once spawned;
\* spawned counts the calls of Command::output().
Execute(process) ==
    LET attempts == <<process>>
        returned ==
            IF ~attempts[1].started THEN ResultErr(<<"Failed to execute git command">>)
            ELSE IF ExitSuccess(attempts[1].status)
            THEN ResultOk(FromUtf8Lossy(attempts[1].stdout))
            ELSE ResultErr(FromUtf8Lossy(attempts[1].stderr))
    IN Ok([is_ok |-> returned.value.is_ok, it |-> returned.value.it,
           spawned |-> Len(attempts)])

----------------------------------------------------------------------------
(* The lookback window and the command executor *)

\* now - chrono::Duration::days(days), formatted %Y-%m-%d: a day number.
SinceDate(now, n) == now - n

\* The arguments of one git command.
Args(cmd, param, sinceDate) == [cmd |-> cmd, param |-> param, since |-> sinceDate]

Record(h, args, ok) ==
    [a \in DOMAIN h \cup {args} |->
        IF a = args
        THEN (IF a \in DOMAIN h THEN Append(h[a], ok) ELSE <<ok>>)
        ELSE h[a]]

\* A command executor that runs the command a second time when it failed.
ExecuteWithRetry(h, args, ok) ==
    IF ok THEN Record(h, args, ok) ELSE Record(Record(h, args, ok), args, ok)

\* execute_git_command: one Command::output() per call, whatever its outcome.
execute_git_command(h, args, ok) == Record(h, args, ok)

----------------------------------------------------------------------------
(* Contributor Insights, pass 1 (lines 326-338) *)

AuthorNames == {<<"a">>, <<"b">>}

AuthorEmails == {<<"x">>, <<"y">>}

\* The same commit with blanks around both fields.
Padded(name, email) == FormatNameEmail(name \o <<" ">>, <<" ">> \o email)

\* A line without a pipe: fewer than two fields.
NoiseLine == <<"a">>

Pass1Lines ==
    {FormatNameEmail(n, e) : n \in AuthorNames, e \in AuthorEmails}
    \cup {Padded(n, e) : n \in AuthorNames, e \in AuthorEmails}
    \cup {NoiseLine}

SeqsUpTo(S, n) == UNION {[1..k -> S] : k \in 0..n}

\* Pass-1 outputs of up to MaxLogLen lines.
Pass1Logs == SeqsUpTo(Pass1Lines, MaxLogLen)

\* The pass-1 outputs the orchestrator is run on: no contributor and two of them.
OrchLogs ==
    { <<>>,
      <<FormatNameEmail(<<"a">>, <<"x">>), FormatNameEmail(<<"b">>, <<"y">>)>> }

\* A key made of the display name.
KeyByName(name, email) == name

\* let key = email.to_string();
ContributorKey(name, email) == email

\* map.entry(key).or_insert(value)
OrInsert(map, key, value) ==
    [k \in DOMAIN map \cup {key} |-> IF k \in DOMAIN map THEN map[k] ELSE value]

EmptyMap == [k \in {} |-> 0]

\* The loop over log_output.lines(): contributor_counts and contributor_names.
CountContributors(lines) ==
    LET RECURSIVE go(_, _, _)
        go(i, cnt, nms) ==
            IF i > Len(lines) THEN [counts |-> cnt, names |-> nms]
            ELSE LET parts == Split(lines[i], "|")
                 IN IF Len(parts) >= 2
                    THEN LET name == Trim(parts[1])
                             email == Trim(parts[2])
                             key == ContributorKey(name, email)
                         IN go(i + 1, Increment(cnt, key), OrInsert(nms, key, name))
                    ELSE go(i + 1, cnt, nms)
    IN go(1, EmptyMap, EmptyMap)

\* A record for a contributor whose detail query failed.
ContributorWithoutStats(name, email, commits_count, ok) ==
    <<[name |-> name, email |-> email, total_commits |-> commits_count]>>

\* analyze_contributor after its query returned: Some(record) or None.
\* (The numstat totals of the record are left out: no property here reads them.)
ContributorRecord(name, email, commits_count, ok) ==
    IF ok
    THEN <<[name |-> name, email |-> email, total_commits |-> commits_count]>>
    ELSE <<>>

----------------------------------------------------------------------------
(* Initial state *)

\* The lookback windows a caller may pass: zero days and a positive count.
Days == {0, MaxDays}

NoResult == [kind |-> "none", by |-> ""]

InitLocals ==
    /\ today = 0
    /\ st = [a \in Aspects |-> "idle"]
    /\ step = [a \in Aspects |-> 0]
    /\ since = [a \in Aspects |-> <<>>]
    /\ hist = [a \in {} |-> <<>>]
    /\ usedDays = {}
    /\ remote_url = "unset"
    /\ contribLog = <<>>
    /\ counts = EmptyMap
    /\ names = EmptyMap
    /\ pending = {}
    /\ contributors = <<>>
    /\ tagNames = <<>>
    /\ recentTags = <<>>
    /\ chResult = <<>>
    /\ dpInput = <<>>
    /\ result = NoResult
    /\ report = {}

\* No function has been applied on its own.
InitFn ==
    /\ entries = <<>>
    /\ fn = "none"
    /\ out = <<>>

\* Some file system: a .git entry lies inside an existing path.
InitPaths ==
    /\ pathExists \in BOOLEAN
    /\ gitExists \in BOOLEAN
    /\ gitExists => pathExists

\* A call of analyze_git_repository(repo_path, days) with a positive window.
Init ==
    /\ InitPaths
    /\ days = MaxDays
    /\ pc = "start"
    /\ InitLocals
    /\ InitFn

\* A call of analyze_git_repository(repo_path, days) with any window.
InitAnyWindow ==
    /\ InitPaths
    /\ days \in Days
    /\ pc = "start"
    /\ InitLocals
    /\ InitFn

inputVars == <<pathExists, gitExists, days>>

ciVars == <<contribLog, counts, names, pending, contributors>>

rpVars == <<tagNames, recentTags>>

outVars == <<result, report>>

fnVars == <<entries, fn, out>>

----------------------------------------------------------------------------
(* The calendar *)

\* A call of chrono::Local::now() that computes a since_date can come next
\* (lines 238, 312, 352, 465 and 663).
ClockRead ==
    \/ pc = "join" /\ (st[CH] = "idle" \/ st[CI] = "idle")
    \/ pc = "join" /\ st[CI] = "running" /\ step[CI] = 1 /\ pending # {}
    \/ pc = "churn" /\ st[CC] = "idle"
    \/ pc = "arch" /\ st[AD] = "idle"

\* Midnight has passed when the clock is read next: chrono::Local::now() returns
\* the next date from here on.
Tick ==
    /\ ClockRead
    /\ today < MaxTicks
    /\ today' = today + 1
    /\ UNCHANGED <<inputVars, fnVars, pc, st, step, since, hist, usedDays, remote_url,
                   ciVars, rpVars, chResult, dpInput, outVars>>

----------------------------------------------------------------------------
(* analyze_git_repository, lines 146-154: the path checks *)

\* Only the first check is made.
PathErrorNoGitCheck == IF ~pathExists THEN "Path does not exist" ELSE ""

PathError ==
    IF ~pathExists THEN "Path does not exist"
    ELSE IF ~gitExists THEN "Not a Git repository"
    ELSE ""

Fail(by) == [kind |-> "err", by |-> by]

check_paths ==
    /\ pc = "start"
    /\ IF PathError # ""
       THEN /\ result' = Fail(PathError)
            /\ pc' = "done"
       ELSE /\ pc' = "join"
            /\ UNCHANGED result
    /\ UNCHANGED <<inputVars, fnVars, today, st, step, since, hist, usedDays, remote_url,
                   ciVars, rpVars, chResult, dpInput, report>>

----------------------------------------------------------------------------
(* Steps shared by the aspects *)

\* The aspect is entered; a window-scoped one computes its since_date there.
Enter(a, windowed) ==
    /\ st[a] = "idle"
    /\ st' = [st EXCEPT ![a] = "running"]
    /\ IF windowed
       THEN /\ since' = [since EXCEPT ![a] = <<SinceDate(today, days)>>]
            /\ usedDays' = usedDays \cup {days}
       ELSE UNCHANGED <<since, usedDays>>

Running(a, n) == st[a] = "running" /\ step[a] = n

Finish(a, status) == st' = [st EXCEPT ![a] = status]

Advance(a) == step' = [step EXCEPT ![a] = @ + 1]

----------------------------------------------------------------------------
(* get_repository_info, lines 194-235 *)

get_repository_info ==
    /\ pc = "join"
    /\ Enter(RI, FALSE)
    /\ UNCHANGED <<inputVars, fnVars, today, pc, step, hist, remote_url, ciVars, rpVars,
                   chResult, dpInput, outVars>>

\* rev-parse --abbrev-ref HEAD
ri_default_branch ==
    /\ Running(RI, 0)
    /\ \E ok \in BOOLEAN :
        /\ hist' = execute_git_command(hist, Args("rev-parse", <<>>, <<>>), ok)
        /\ IF ok THEN Advance(RI) /\ UNCHANGED st
                 ELSE Finish(RI, "err") /\ UNCHANGED step
    /\ UNCHANGED <<inputVars, fnVars, today, pc, since, usedDays, remote_url, ciVars, rpVars,
                   chResult, dpInput, outVars>>

\* config --get remote.origin.url, .ok(): a failure gives None
ri_remote_url ==
    /\ Running(RI, 1)
    /\ \E ok \in BOOLEAN :
        /\ hist' = execute_git_command(hist, Args("config", <<>>, <<>>), ok)
        /\ remote_url' = IF ok THEN "some" ELSE "none"
    /\ Advance(RI)
    /\ UNCHANGED <<inputVars, fnVars, today, pc, st, since, usedDays, ciVars, rpVars,
                   chResult, dpInput, outVars>>

\* rev-list --count HEAD, then parse::<usize>()
ri_total_commits ==
    /\ Running(RI, 2)
    /\ \E ok \in BOOLEAN, isInteger \in BOOLEAN :
        /\ hist' = execute_git_command(hist, Args("rev-list", <<>>, <<>>), ok)
        /\ IF ok /\ isInteger THEN Advance(RI) /\ UNCHANGED st
                              ELSE Finish(RI, "err") /\ UNCHANGED step
    /\ UNCHANGED <<inputVars, fnVars, today, pc, since, usedDays, remote_url, ciVars, rpVars,
                   chResult, dpInput, outVars>>

\* log --reverse --format=%ai --max-count=1
ri_first_commit ==
    /\ Running(RI, 3)
    /\ \E ok \in BOOLEAN :
        /\ hist' = execute_git_command(hist, Args("log-first", <<>>, <<>>), ok)
        /\ IF ok THEN Advance(RI) /\ UNCHANGED st
                 ELSE Finish(RI, "err") /\ UNCHANGED step
    /\ UNCHANGED <<inputVars, fnVars, today, pc, since, usedDays, remote_url, ciVars, rpVars,
                   chResult, dpInput, outVars>>

\* log -1 --format=%ai, then the two NaiveDateTime::parse_from_str
ri_last_commit ==
    /\ Running(RI, 4)
    /\ \E ok \in BOOLEAN, firstParses \in BOOLEAN, lastParses \in BOOLEAN :
        /\ hist' = execute_git_command(hist, Args("log-last", <<>>, <<>>), ok)
        /\ Finish(RI, IF ok /\ firstParses /\ lastParses THEN "ok" ELSE "err")
    /\ Advance(RI)
    /\ UNCHANGED <<inputVars, fnVars, today, pc, since, usedDays, remote_url, ciVars, rpVars,
                   chResult, dpInput, outVars>>

----------------------------------------------------------------------------
(* get_commit_history, lines 237-279 *)

\* What get_commit_history can return: a history without and one with commits.
CommitHistories == {<<"empty">>, <<"commits">>}

get_commit_history ==
    /\ pc = "join"
    /\ Enter(CH, TRUE)
    /\ UNCHANGED <<inputVars, fnVars, today, pc, step, hist, remote_url, ciVars, rpVars,
                   chResult, dpInput, outVars>>

\* log --since=.. --format=%H|%an|%ae|%ai|%s --numstat; the parse cannot fail
ch_log ==
    /\ Running(CH, 0)
    /\ \E ok \in BOOLEAN :
        /\ hist' = execute_git_command(hist, Args("log-stats", <<>>, since[CH]), ok)
        /\ IF ok
           THEN /\ \E h \in CommitHistories : chResult' = h
                /\ Finish(CH, "ok")
           ELSE /\ Finish(CH, "err")
                /\ UNCHANGED chResult
    /\ Advance(CH)
    /\ UNCHANGED <<inputVars, fnVars, today, pc, since, usedDays, remote_url, ciVars, rpVars,
                   dpInput, outVars>>

----------------------------------------------------------------------------
(* get_branch_analysis, lines 281-309 *)

get_branch_analysis ==
    /\ pc = "join"
    /\ Enter(BA, FALSE)
    /\ UNCHANGED <<inputVars, fnVars, today, pc, step, hist, remote_url, ciVars, rpVars,
                   chResult, dpInput, outVars>>

\* branch -a --format=..; parse_branch_info drops what it cannot read
ba_branches ==
    /\ Running(BA, 0)
    /\ \E ok \in BOOLEAN :
        /\ hist' = execute_git_command(hist, Args("branch", <<>>, <<>>), ok)
        /\ Finish(BA, IF ok THEN "ok" ELSE "err")
    /\ Advance(BA)
    /\ UNCHANGED <<inputVars, fnVars, today, pc, since, usedDays, remote_url, ciVars, rpVars,
                   chResult, dpInput, outVars>>

----------------------------------------------------------------------------
(* get_contributor_insights, lines 311-349, and analyze_contributor, 662-721 *)

get_contributor_insights ==
    /\ pc = "join"
    /\ Enter(CI, TRUE)
    /\ UNCHANGED <<inputVars, fnVars, today, pc, step, hist, remote_url, ciVars, rpVars,
                   chResult, dpInput, outVars>>

\* Pass 1: log --since=.. --format=%aN|%aE, then the counting loop.
ci_pass1(Logs) ==
    /\ Running(CI, 0)
    /\ \E ok \in BOOLEAN :
        /\ hist' = execute_git_command(hist, Args("log-authors", <<>>, since[CI]), ok)
        /\ IF ok
           THEN \E log \in Logs :
                    LET c == CountContributors(log)
                    IN /\ contribLog' = log
                       /\ counts' = c.counts
                       /\ names' = c.names
                       /\ pending' = DOMAIN c.counts
                       /\ Advance(CI)
                       /\ UNCHANGED st
           ELSE /\ Finish(CI, "err")
                /\ UNCHANGED <<contribLog, counts, names, pending, step>>
    /\ UNCHANGED <<inputVars, fnVars, today, pc, since, usedDays, remote_url, contributors,
                   rpVars, chResult, dpInput, outVars>>

\* A task whose push is not exclusive: it writes its record over the last one
\* collected, as two unsynchronized appends to one vector do.
analyze_contributor_unsynchronized ==
    /\ Running(CI, 1)
    /\ \E email \in pending, ok \in BOOLEAN :
        /\ hist' = execute_git_command(
                       hist, Args("log-author", email, <<SinceDate(today, days)>>), ok)
        /\ contributors' =
               SubSeq(contributors, 1, Len(contributors) - 1)
                   \o ContributorRecord(names[email], email, counts[email], ok)
        /\ pending' = pending \ {email}
    /\ usedDays' = usedDays \cup {days}
    /\ UNCHANGED <<inputVars, fnVars, today, pc, st, step, since, remote_url, contribLog,
                   counts, names, rpVars, chResult, dpInput, outVars>>

\* Pass 2, one par_iter task: its own now, its query, Some(record) or None.
analyze_contributor ==
    /\ Running(CI, 1)
    /\ \E email \in pending, ok \in BOOLEAN :
        /\ hist' = execute_git_command(
                       hist, Args("log-author", email, <<SinceDate(today, days)>>), ok)
        /\ contributors' =
               contributors \o ContributorRecord(names[email], email, counts[email], ok)
        /\ pending' = pending \ {email}
    /\ usedDays' = usedDays \cup {days}
    /\ UNCHANGED <<inputVars, fnVars, today, pc, st, step, since, remote_url, contribLog,
                   counts, names, rpVars, chResult, dpInput, outVars>>

\* .collect() once every task is done, then Ok(contributors)
ci_return ==
    /\ Running(CI, 1)
    /\ pending = {}
    /\ Finish(CI, "ok")
    /\ Advance(CI)
    /\ UNCHANGED <<inputVars, fnVars, today, pc, since, hist, usedDays, remote_url, ciVars,
                   rpVars, chResult, dpInput, outVars>>

----------------------------------------------------------------------------
(* analyze_git_repository, lines 156-192: the join and the sequential tail *)

\* A join that waits for its first closure only.
FirstPairDone == Completed(RI) /\ Completed(CH)

\* The outer rayon::join returns when both nested joins have returned.
JoinDone == \A a \in ParallelAspects : Completed(a)

\* A failed commit history replaced by a default one (unwrap_or_default).
CommitHistoryDefaulted == TRUE

\* let commit_hist = commit_history?;
CommitHistoryUnwraps == st[CH] = "ok"

join_return ==
    /\ pc = "join"
    /\ JoinDone
    /\ IF CommitHistoryUnwraps
       THEN /\ pc' = "churn"
            /\ UNCHANGED result
       ELSE /\ pc' = "done"
            /\ result' = Fail(CH)
    /\ UNCHANGED <<inputVars, fnVars, today, st, step, since, hist, usedDays, remote_url,
                   ciVars, rpVars, chResult, dpInput, report>>

\* The thread goes on to `next` on Ok and returns the error on Err (the ? operator).
Try(a, ok, next) ==
    IF ok
    THEN /\ Finish(a, "ok")
         /\ pc' = next
         /\ UNCHANGED result
    ELSE /\ Finish(a, "err")
         /\ pc' = "done"
         /\ result' = Fail(a)

\* get_code_churn, lines 351-402
get_code_churn ==
    /\ pc = "churn"
    /\ Enter(CC, TRUE)
    /\ UNCHANGED <<inputVars, fnVars, today, pc, step, hist, remote_url, ciVars, rpVars,
                   chResult, dpInput, outVars>>

\* log --since=.. --numstat --format=
cc_log ==
    /\ pc = "churn"
    /\ Running(CC, 0)
    /\ \E ok \in BOOLEAN :
        /\ hist' = execute_git_command(hist, Args("log-numstat", <<>>, since[CC]), ok)
        /\ Try(CC, ok, "patterns")
    /\ Advance(CC)
    /\ UNCHANGED <<inputVars, fnVars, today, since, usedDays, remote_url, ciVars, rpVars,
                   chResult, dpInput, report>>

\* analyze_development_patterns(&commit_hist), lines 404-462: no query, always Ok
analyze_development_patterns ==
    /\ pc = "patterns"
    /\ Enter(DP, FALSE)
    /\ dpInput' = chResult
    /\ UNCHANGED <<inputVars, fnVars, today, pc, step, hist, remote_url, ciVars, rpVars,
                   chResult, outVars>>

dp_return ==
    /\ pc = "patterns"
    /\ Running(DP, 0)
    /\ Try(DP, TRUE, "arch")
    /\ Advance(DP)
    /\ UNCHANGED <<inputVars, fnVars, today, since, hist, usedDays, remote_url, ciVars, rpVars,
                   chResult, dpInput, report>>

\* find_architectural_decisions, lines 464-493
Keywords == <<"refactor", "migrate", "architecture", "deprecate", "breaking", "redesign">>

\* The keywords as text: what --grep is given (line 479).
KeywordText ==
    << <<"r", "e", "f", "a", "c", "t", "o", "r">>,
       <<"m", "i", "g", "r", "a", "t", "e">>,
       <<"a", "r", "c", "h", "i", "t", "e", "c", "t", "u", "r", "e">>,
       <<"d", "e", "p", "r", "e", "c", "a", "t", "e">>,
       <<"b", "r", "e", "a", "k", "i", "n", "g">>,
       <<"r", "e", "d", "e", "s", "i", "g", "n">> >>

\* git log --grep=keyword -i (lines 479-480) on the commits of the window, each
\* with a one-line message: those whose subject holds the keyword in any case.
Grep(commits, keyword) ==
    SelectSeq(commits, LAMBDA c : Contains(ToLowercase(c.fields[4]), keyword))

\* A commit that is among the decisions already is not added again.
PushUnseen(decisions, found) ==
    decisions \o SelectSeq(found, LAMBDA d : \A i \in 1..Len(decisions) :
                                                decisions[i].commit_hash # d.commit_hash)

\* Line 487: decisions.push(decision), for the decisions of one keyword.
Push(decisions, found) == decisions \o found

\* Lines 471-492, every command succeeding.
ArchitecturalDecisions(commits) ==
    LET Scan(decisions, k) ==
            LET found == FilterMap(Lines(Grep(commits, KeywordText[k])),
                                   LAMBDA line :
                                       parse_architectural_decision(line, Keywords[k]))
            IN IF decisions.panicked \/ found.panicked THEN Panic
               ELSE Ok(Push(decisions.value, found.value))
    IN Fold(Scan, Ok(<<>>), [k \in 1..Len(Keywords) |-> k])

find_architectural_decisions ==
    /\ pc = "arch"
    /\ Enter(AD, TRUE)
    /\ UNCHANGED <<inputVars, fnVars, today, pc, step, hist, remote_url, ciVars, rpVars,
                   chResult, dpInput, outVars>>

\* One keyword of the loop: log --since=.. --grep=keyword -i --format=%H|%ai|%an|%s
ad_keyword ==
    /\ pc = "arch"
    /\ st[AD] = "running"
    /\ step[AD] < Len(Keywords)
    /\ \E ok \in BOOLEAN :
        /\ hist' = execute_git_command(
                       hist, Args("log-grep", <<Keywords[step[AD] + 1]>>, since[AD]), ok)
        /\ IF ok /\ step[AD] + 1 < Len(Keywords)
           THEN UNCHANGED <<st, pc, result>>
           ELSE Try(AD, ok, "release")
    /\ Advance(AD)
    /\ UNCHANGED <<inputVars, fnVars, today, since, usedDays, remote_url, ciVars, rpVars,
                   chResult, dpInput, report>>

\* analyze_release_patterns, lines 495-549
Digits == <<"1", "2", "3", "4", "5", "6", "7", "8", "9">>

\* Tag names are refs: no two tags of a repository share a name.
TagName(i) == <<"v", Digits[i]>>

TagLists == {[i \in 1..n |-> TagName(i)] : n \in 0..MaxTags}

analyze_release_patterns ==
    /\ pc = "release"
    /\ Enter(RP, FALSE)
    /\ UNCHANGED <<inputVars, fnVars, today, pc, step, hist, remote_url, ciVars, rpVars,
                   chResult, dpInput, outVars>>

\* tag -l --sort=-creatordate
rp_tags ==
    /\ pc = "release"
    /\ Running(RP, 0)
    /\ \E ok \in BOOLEAN :
        /\ hist' = execute_git_command(hist, Args("tag", <<>>, <<>>), ok)
        /\ IF ok
           THEN /\ \E tags \in TagLists : tagNames' = tags
                /\ UNCHANGED <<st, pc, result>>
           ELSE /\ Try(RP, FALSE, "assemble")
                /\ UNCHANGED tagNames
    /\ Advance(RP)
    /\ UNCHANGED <<inputVars, fnVars, today, since, usedDays, remote_url, ciVars, recentTags,
                   chResult, dpInput, report>>

\* get_tag_info for the next of the first TagInfoCap tags: show <tag> --format=.. ;
\* a failed query or a line of fewer than 3 fields gives None.
get_tag_info ==
    /\ pc = "release"
    /\ st[RP] = "running"
    /\ step[RP] >= 1
    /\ step[RP] <= Min(Len(tagNames), TagInfoCap)
    /\ \E ok \in BOOLEAN, wellFormed \in BOOLEAN :
        /\ hist' = execute_git_command(hist, Args("show", tagNames[step[RP]], <<>>), ok)
        /\ recentTags' = IF ok /\ wellFormed
                         THEN Append(recentTags, tagNames[step[RP]])
                         ELSE recentTags
    /\ Advance(RP)
    /\ UNCHANGED <<inputVars, fnVars, today, pc, st, since, usedDays, remote_url, ciVars,
                   tagNames, chResult, dpInput, outVars>>

rp_return ==
    /\ pc = "release"
    /\ st[RP] = "running"
    /\ step[RP] = Min(Len(tagNames), TagInfoCap) + 1
    /\ Try(RP, TRUE, "assemble")
    /\ UNCHANGED <<inputVars, fnVars, today, step, since, hist, usedDays, remote_url, ciVars,
                   rpVars, chResult, dpInput, report>>

\* The report is built although contributors is an Err (unwrap_or_default).
AssembleErrorIgnoringContributors ==
    IF st[RI] = "err" THEN RI
    ELSE IF st[BA] = "err" THEN BA
    ELSE ""

\* The fields are unwrapped with the branch analysis before the repository
\* info.
AssembleErrorBranchesFirst ==
    IF st[BA] = "err" THEN BA
    ELSE IF st[RI] = "err" THEN RI
    ELSE IF st[CI] = "err" THEN CI
    ELSE ""

\* Ok(GitAnalysis { repository_info: repo_info?, .., branch_analysis: branch_analysis?,
\*                  contributor_insights: contributors?, .. })
AssembleError ==
    IF st[RI] = "err" THEN RI
    ELSE IF st[BA] = "err" THEN BA
    ELSE IF st[CI] = "err" THEN CI
    ELSE ""

assemble ==
    /\ pc = "assemble"
    /\ pc' = "done"
    /\ IF AssembleError # ""
       THEN /\ result' = Fail(AssembleError)
            /\ UNCHANGED report
       ELSE /\ result' = [kind |-> "ok", by |-> ""]
            /\ report' = Aspects
    /\ UNCHANGED <<inputVars, fnVars, today, st, step, since, hist, usedDays, remote_url,
                   ciVars, rpVars, chResult, dpInput>>

----------------------------------------------------------------------------
(* Specifications *)

Next ==
    \/ Tick
    \/ check_paths
    \/ get_repository_info
    \/ ri_default_branch
    \/ ri_remote_url
    \/ ri_total_commits
    \/ ri_first_commit
    \/ ri_last_commit
    \/ get_commit_history
    \/ ch_log
    \/ get_branch_analysis
    \/ ba_branches
    \/ get_contributor_insights
    \/ ci_pass1(OrchLogs)
    \/ analyze_contributor
    \/ ci_return
    \/ join_return
    \/ get_code_churn
    \/ cc_log
    \/ analyze_development_patterns
    \/ dp_return
    \/ find_architectural_decisions
    \/ ad_keyword
    \/ analyze_release_patterns
    \/ rp_tags
    \/ get_tag_info
    \/ rp_return
    \/ assemble

Spec == Init /\ [][Next]_vars

SpecAnyWindow == InitAnyWindow /\ [][Next]_vars

\* get_contributor_insights called on its own, with a positive window.
InitContrib ==
    /\ pathExists = TRUE
    /\ gitExists = TRUE
    /\ days = MaxDays
    /\ pc = "join"
    /\ InitLocals
    /\ InitFn

NextContrib ==
    \/ get_contributor_insights
    \/ ci_pass1(Pass1Logs)
    \/ analyze_contributor
    \/ ci_return

SpecContrib == InitContrib /\ [][NextContrib]_vars

----------------------------------------------------------------------------
(* The functions on their own: one call on the output of its command *)

orchVars == <<inputVars, today, pc, st, step, since, hist, usedDays, remote_url,
              ciVars, rpVars, chResult, dpInput, outVars>>

\* No analysis is running; the function named by fn is called directly.
InitApart ==
    /\ pathExists = TRUE
    /\ gitExists = TRUE
    /\ pc = "apart"
    /\ InitLocals
    /\ fn = "none"
    /\ out = <<>>

\* The function is applied to the printed lines and ends.
Apply(name, outcome) ==
    /\ fn = "none"
    /\ fn' = name
    /\ out' = <<outcome>>
    /\ UNCHANGED <<orchVars, entries>>

\* Hashes that begin with a letter and with a digit; a subject with a pipe in it.
HashLetterFirst == <<"a", "1">>

HashDigitFirst == <<"1", "a">>

HashPipeSubject == <<"b", "2">>

HashShort == <<"c", "3">>

AuthorDate == <<"2", "0", "2", "3", "-", "1", "0", "-", "2", "7">>

PlainSubject == <<"s">>

PipeSubject == <<"s", "|", "t">>

ParseEntries ==
    { Commit(HashLetterFirst, <<"n">>, <<"m">>, AuthorDate, PlainSubject),
      Commit(HashDigitFirst, <<"n">>, <<"m">>, AuthorDate, PlainSubject),
      Commit(HashPipeSubject, <<"n">>, <<"m">>, AuthorDate, PipeSubject),
      ShortHeader(HashShort, <<"n">>, <<"m">>),
      Numstat(1, 2, <<"f">>),
      Numstat(3, 0, <<"g">>),
      Binary(<<"f">>),
      Blank }

ParseLogs == SeqsUpTo(ParseEntries, MaxParseLen)

InitParse ==
    /\ InitApart
    /\ days = MaxDays
    /\ entries \in ParseLogs

apply_parse_git_log_with_stats ==
    Apply("parse_git_log_with_stats",
          Ok(parse_git_log_with_stats(Lines(entries))))

NextParse ==
    \/ apply_parse_git_log_with_stats

SpecParse == InitParse /\ [][NextParse]_vars

\* Any text as the output of the command: lines of every format the analyzer
\* reads, with too few fields, with counts that are no numbers, and empty lines.
BranchName == <<"m">>

AnyEntries ==
    { Commit(HashLetterFirst, <<"n">>, <<"m">>, AuthorDate, PlainSubject),
      Shown(HashShort, AuthorDate, PlainSubject),
      Numstat(1, 2, <<"f">>),
      Binary(<<"f">>),
      Blank,
      Branch(BranchName, AuthorDate, <<"1", " ", "2">>),
      Branch(<<" ">> \o BranchName, AuthorDate, <<"x", " ", "y">>),
      Branch(BranchName, AuthorDate, <<>>),
      ShortBranch(BranchName, AuthorDate),
      Hit(HashLetterFirst, AuthorDate, <<"n">>, <<"F", "i", "x">>) }

AnyLogs == SeqsUpTo(AnyEntries, MaxParseLen)

InitTotal ==
    /\ InitApart
    /\ days = MaxDays
    /\ entries \in AnyLogs

\* get_branch_analysis, lines 284-287
apply_parse_branch_info ==
    Apply("parse_branch_info", FilterMap(Lines(entries), parse_branch_info))

\* find_architectural_decisions, lines 485-489, for one keyword
apply_parse_architectural_decision ==
    \E k \in 1..Len(Keywords) :
        Apply("parse_architectural_decision",
              FilterMap(Lines(entries),
                        LAMBDA line : parse_architectural_decision(line, Keywords[k])))

apply_get_tag_info ==
    Apply("get_tag_info", TagInfo(TagName(1), Lines(entries)))

NextTotal ==
    \/ apply_parse_git_log_with_stats
    \/ apply_parse_branch_info
    \/ apply_parse_architectural_decision
    \/ apply_get_tag_info

SpecTotal == InitTotal /\ [][NextTotal]_vars

\* The output of git log --numstat --format= (line 358): small logs of any
\* lines, and logs of n files changed in rounds, every file t times (even) or
\* file i (i % t) + 1 times (stepped).
Path(i) == <<"f">> \o ShowNat(i)

ChurnEntries ==
    { Numstat(1, 2, Path(1)), Numstat(3, 0, Path(2)), Numstat(0, 4, Path(3)),
      Binary(Path(1)), Blank }

TimesOf(i, t, stepped) == IF stepped THEN (i % t) + 1 ELSE t

Rounds(n, t, stepped) ==
    LET Round(r) ==
            LET files == SelectSeq([i \in 1..n |-> i],
                                   LAMBDA i : TimesOf(i, t, stepped) >= r)
            IN [k \in 1..Len(files) |-> Numstat(r, 1, Path(files[k]))] \o <<Blank>>
        RECURSIVE go(_)
        go(r) == IF r > t THEN <<>> ELSE Round(r) \o go(r + 1)
    IN go(1)

ChurnLogs ==
    SeqsUpTo(ChurnEntries, MaxChurnLen)
        \cup {Rounds(n, t, stepped) : n \in 0..MaxPaths, t \in 1..MaxTimes,
                                      stepped \in BOOLEAN}

\* The first-seen order of the keys and its reverse; every order of a few keys.
IterationOrders(lines) ==
    LET keys == DOMAIN FileChanges(lines)
        seen == SelectSeq([i \in 1..Len(lines) |->
                              LET parts == SplitWhitespace(lines[i])
                              IN IF /\ Len(parts) >= 3
                                    /\ parts[3] \in keys
                                    /\ \A j \in 1..(i - 1) :
                                           LET q == SplitWhitespace(lines[j])
                                           IN ~(Len(q) >= 3 /\ q[3] = parts[3])
                                 THEN <<parts[3]>> ELSE <<>>],
                          LAMBDA x : x # <<>>)
        first == [i \in 1..Len(seen) |-> seen[i][1]]
    IN IF Cardinality(keys) <= MaxShuffled THEN KeyOrders(keys)
       ELSE {first, [i \in 1..Len(first) |-> first[Len(first) + 1 - i]]}

InitChurn ==
    /\ InitApart
    /\ days = MaxDays
    /\ entries \in ChurnLogs

apply_get_code_churn ==
    \E order \in IterationOrders(Lines(entries)) :
        Apply("get_code_churn", Ok(CodeChurn(FileChanges(Lines(entries)), order)))

NextChurn ==
    \/ apply_get_code_churn

SpecChurn == InitChurn /\ [][NextChurn]_vars

\* A second run of get_code_churn on the same log output: a new process, whose
\* HashMap hands out its entries in an order of its own.
run_get_code_churn_again ==
    /\ fn = "get_code_churn"
    /\ \E order \in IterationOrders(Lines(entries)) :
           out' = Append(out, Ok(CodeChurn(FileChanges(Lines(entries)), order)))
    /\ fn' = "get_code_churn, twice"
    /\ UNCHANGED <<orchVars, entries>>

NextChurnTwice ==
    \/ apply_get_code_churn
    \/ run_get_code_churn_again

SpecChurnTwice == InitChurn /\ [][NextChurnTwice]_vars

\* The output of git log --format=%H|%an|%ae|%ai|%s --numstat (lines 245-248)
\* for a window with n commits, over three months and in two time zones.
IsoDate(i) ==
    <<"2", "0", "2", "3", "-">> \o Pad2(10 + (i % 3)) \o <<"-">> \o Pad2(1 + (i % 5))
        \o <<" ", "1", "0", ":", "0", "0", ":", "0", "0", " ">>
        \o (IF i % 2 = 0 THEN <<"+", "0", "0", "0", "0">> ELSE <<"-", "0", "5", "0", "0">>)

CommitNo(i) == Commit(<<"c">> \o ShowNat(i), <<"n">>, <<"m">>, IsoDate(i), PlainSubject)

History(n, stats) ==
    IF stats
    THEN [k \in 1..(3 * n) |->
             CASE k % 3 = 1 -> CommitNo((k + 2) \div 3)
               [] k % 3 = 2 -> Blank
               [] OTHER -> Numstat(k \div 3, 1, Path(k % 2))]
    ELSE [k \in 1..n |-> CommitNo(k)]

HistoryLogs == {History(n, stats) : n \in 0..MaxCommits, stats \in BOOLEAN}

\* Windows of no days, of less than a week, of a week and of more.
HistoryDays == {0 - MaxDays, 0, MaxDays, DaysPerWeek, DaysPerWeek + MaxDays}

InitHistory ==
    /\ InitApart
    /\ days \in HistoryDays
    /\ entries \in HistoryLogs

apply_get_commit_history ==
    Apply("get_commit_history", Ok(CommitHistory(Lines(entries), days)))

NextHistory ==
    \/ apply_get_commit_history

SpecHistory == InitHistory /\ [][NextHistory]_vars

\* The commits of a window: subjects with two keywords, with one in capitals,
\* with a pipe in them (between two keywords, and before a tier word), and
\* with none.
DecisionCommits ==
    { Hit(<<"a", "1">>, AuthorDate, <<"n">>, <<"R", "e", "f", "a", "c", "t", "o", "r", ":", " ", "m", "i", "g", "r", "a", "t", "e", " ", "d", "b">>),
      Hit(<<"b", "2">>, AuthorDate, <<"n">>, <<"B", "R", "E", "A", "K", "I", "N", "G", " ", "r", "e", "d", "e", "s", "i", "g", "n">>),
      Hit(<<"c", "3">>, AuthorDate, <<"n">>, <<"d", "e", "p", "r", "e", "c", "a", "t", "e", "|", "a", "r", "c", "h", "i", "t", "e", "c", "t", "u", "r", "e">>),
      Hit(<<"d", "4">>, AuthorDate, <<"n">>, <<"r", "e", "d", "e", "s", "i", "g", "n">>),
      Hit(<<"e", "5">>, AuthorDate, <<"n">>, <<"f", "i", "x", " ", "t", "y", "p", "o">>),
      Hit(<<"f", "6">>, AuthorDate, <<"n">>, <<"m", "i", "g", "r", "a", "t", "e", "|", "b", "r", "e", "a", "k", "i", "n", "g">>) }

DecisionLogs == SeqsUpTo(DecisionCommits, MaxParseLen)

InitDecisions ==
    /\ InitApart
    /\ days = MaxDays
    /\ entries \in DecisionLogs

apply_find_architectural_decisions ==
    Apply("find_architectural_decisions", ArchitecturalDecisions(entries))

NextDecisions ==
    \/ apply_find_architectural_decisions

SpecDecisions == InitDecisions /\ [][NextDecisions]_vars

----------------------------------------------------------------------------
(* analyze_release_patterns on its own *)

TagNo(i) == <<"v">> \o ShowNat(i)

\* tags_output.lines() of a repository with n tags.
TagNames(n) == [i \in 1..n |-> TagNo(i)]

\* Author dates of tagged commits: an hour before midnight of 2024-02-29, two
\* hours later, two days after that, and a year before. Tags are listed by
\* creation date, which orders the author dates of their commits in no way.
ReleaseTimes == <<At(424, 82800), At(425, 3600), At(427, 0), At(59, 43200)>>

\* The offset of the time zone each of them was written in.
ReleaseZones ==
    << <<"+", "0", "1", "0", "0">>, <<"-", "0", "5", "0", "0">>,
       <<"+", "0", "0", "0", "0">>, <<"+", "0", "1", "0", "0">> >>

\* Tag i is a lightweight tag of a commit with the k-th of these dates.
ShownAt(i, k) ==
    Shown(<<"c">> \o ShowNat(i), FormatAi(ReleaseTimes[k], ReleaseZones[k]), PlainSubject)

\* What git show prints for tag i: the commit of a lightweight tag (choices
\* 1 to 4, one per author date), the tag object of an annotated one, or
\* nothing when the command fails.
ShowChoice(i, c) ==
    IF c <= Len(ReleaseTimes) THEN ShownAt(i, c)
    ELSE IF c = Len(ReleaseTimes) + 1 THEN ShownTagObject(TagNo(i))
    ELSE Failing

\* A repository of n tags: the first of them as chosen, a lightweight tag
\* for each of the others.
Repository(n, first) ==
    [i \in 1..n |->
        IF i <= MaxDetailed THEN ShowChoice(i, first[i])
        ELSE ShownAt(i, (i % Len(ReleaseTimes)) + 1)]

ReleaseLogs ==
    {Repository(n, first) :
        n \in 0..MaxListed, first \in [1..MaxDetailed -> 1..(Len(ReleaseTimes) + 2)]}

InitRelease ==
    /\ InitApart
    /\ days = MaxDays
    /\ entries \in ReleaseLogs

apply_analyze_release_patterns ==
    Apply("analyze_release_patterns", ReleasePatterns(TagNames(Len(entries)), entries))

NextRelease ==
    \/ apply_analyze_release_patterns

SpecRelease == InitRelease /\ [][NextRelease]_vars

----------------------------------------------------------------------------
(* get_branch_analysis on its own *)

\* The clock of the machine as the analysis runs: the last second of a day
\* and the first of the next.
ClockValues == <<At(426, 86399), At(427, 0)>>

\* The readings of n successive calls of chrono::Local::now(): the clock does
\* not run backwards.
Readings(n) ==
    {[i \in 1..n |-> IF i <= turn THEN ClockValues[1] ELSE ClockValues[2]] : turn \in 0..n}

\* When the branches were last committed to: 40 days before the analysis, 30
\* days and a second short of a day before its first second, two days
\* before, and three days after (a committer's clock running ahead).
BranchTimes == <<At(386, 43200), At(396, 0), At(424, 82800), At(430, 0)>>

BranchNo(i) == <<"b">> \o ShowNat(i)

\* What git branch prints for branch i: the branch with one of these dates
\* (choices 1 to 4), with no date (a ref that is not a commit), or without
\* its last field.
BranchChoice(i, c) ==
    IF c <= Len(BranchTimes)
    THEN Branch(BranchNo(i), FormatAi(BranchTimes[c], ReleaseZones[c]), <<"1", " ", "2">>)
    ELSE IF c = Len(BranchTimes) + 1 THEN Branch(BranchNo(i), <<>>, <<"0", " ", "0">>)
    ELSE ShortBranch(BranchNo(i), FormatAi(BranchTimes[1], ReleaseZones[1]))

BranchLogs ==
    {[i \in 1..n |-> BranchChoice(i, choice[i])] :
        n \in 0..MaxBranches, choice \in [1..MaxBranches -> 1..(Len(BranchTimes) + 2)]}

InitBranches ==
    /\ InitApart
    /\ days = MaxDays
    /\ entries \in BranchLogs

apply_get_branch_analysis ==
    \E clock \in Readings(2 * Len(entries)) :
        Apply("get_branch_analysis", BranchAnalysis(Lines(entries), clock))

NextBranches ==
    \/ apply_get_branch_analysis

SpecBranches == InitBranches /\ [][NextBranches]_vars

----------------------------------------------------------------------------
(* get_repository_info on its own *)

\* The text with the newline git ends a line with.
WithNewline(text) == text \o <<"\n">>

BranchOutputs == {Printed(WithNewline(<<"m", "a", "i", "n">>)), Failing}

RemoteOutputs == {Printed(WithNewline(<<"g", "i", "t", "@", "h", ":", "r">>)), Failing}

\* Counts that are integers.
IntegerCounts == {Printed(WithNewline(<<"1", "2">>)), Printed(WithNewline(<<"0">>))}

\* And texts that are none: no digits at all, and a count with a fraction.
OtherCounts == {Printed(<<>>), Printed(WithNewline(<<"1", ".", "5">>))}

\* Offsets of a time zone, and a text that is none.
ZoneTexts == {<<"+", "0", "1", "0", "0">>, <<"-", "0", "5", "0", "0">>, <<"z", "z">>}

\* Boundary dates of the shape YYYY-MM-DD HH:MM:SS, each followed by a zone.
ShapedDates ==
    {Printed(WithNewline(FormatAi(ReleaseTimes[k], zone))) : k \in {1, 4}, zone \in ZoneTexts}

\* And texts of another shape: nothing, a date without a time of day, and a
\* date written with slashes.
OtherDates ==
    {Printed(<<>>), Printed(WithNewline(<<"2", "0", "2", "4", "-", "0", "2", "-", "2", "9">>)),
     Printed(WithNewline(<<"2", "0", "2", "4", "/", "0", "2", "/", "2", "9", " ",
                    "2", "3", ":", "0", "0", ":", "0", "0", " ", "+", "0", "1", "0", "0">>))}

InfoOutputs ==
    {<<b, u, c, f, l>> :
        b \in BranchOutputs, u \in RemoteOutputs,
        c \in IntegerCounts \cup OtherCounts \cup {Failing},
        f \in ShapedDates \cup OtherDates \cup {Failing},
        l \in ShapedDates \cup OtherDates \cup {Failing}}

InitInfo ==
    /\ InitApart
    /\ days = MaxDays
    /\ entries \in InfoOutputs

apply_get_repository_info ==
    Apply("get_repository_info", RepositoryInfo(entries))

NextInfo ==
    \/ apply_get_repository_info

SpecInfo == InitInfo /\ [][NextInfo]_vars

----------------------------------------------------------------------------
(* execute_git_command on its own *)

\* Exit statuses of git: success, a failure, and a fatal error.
ExitStatuses == {0, 1, 128}

\* What a process writes to its standard output: nothing, a line, blanks, a
\* line with a byte that is not UTF-8, and two lines.
StdoutTexts ==
    {<<>>, WithNewline(<<"m", "a", "i", "n">>), WithNewline(<<" ">>), WithNewline(<<"a", InvalidByte>>),
     WithNewline(<<"v", "1">>) \o WithNewline(<<"v", "2">>)}

\* And to its standard error: nothing, a warning, an error, and an error
\* with such a byte.
StderrTexts ==
    {<<>>, WithNewline(<<"w", "a", "r", "n">>), WithNewline(<<"f", "a", "t", "a", "l">>),
     WithNewline(<<"f", InvalidByte>>)}

\* The process does not start (no git on the PATH), or it runs and exits.
Processes ==
    {[started |-> FALSE, status |-> 0, stdout |-> <<>>, stderr |-> <<>>]}
        \cup [started : {TRUE}, status : ExitStatuses, stdout : StdoutTexts,
              stderr : StderrTexts]

InitExecute ==
    /\ InitApart
    /\ days = MaxDays
    /\ entries \in {<<p>> : p \in Processes}

apply_execute_git_command ==
    Apply("execute_git_command", Execute(entries[1]))

NextExecute ==
    \/ apply_execute_git_command

SpecExecute == InitExecute /\ [][NextExecute]_vars

----------------------------------------------------------------------------
(* Properties *)

Returned == pc = "done"

AllOk == \A a \in Aspects : st[a] = "ok"

\* The commands issued so far that carry a --since date.
WindowQueries == {a \in DOMAIN hist : a.since # <<>>}

Failed(a) == \E i \in 1..Len(hist[a]) : ~hist[a][i]

\* C1: analyze_git_repository returns a report exactly when all eight aspect
\* analyzers succeeded, the report then holds all eight aspects, and when an
\* aspect failed it returns an error and no report at all.
C1_AllOrNothing ==
    /\ report # {} => Returned
    /\ Returned =>
        /\ result.kind \in {"ok", "err"}
        /\ (result.kind = "ok") <=> AllOk
        /\ result.kind = "ok" => report = Aspects
        /\ result.kind = "err" => report = {}

\* Seven aspects succeeded, Contributor Insights failed, and the call returned.
C1_Witness ==
    /\ Returned
    /\ st[CI] = "err"
    /\ \A a \in Aspects \ {CI} : st[a] = "ok"
    /\ result = Fail(CI)

\* C2: when an aspect analyzer fails, every other aspect analyzer is still
\* started and runs to completion within that analysis.
C2_FailureIsolated ==
    (Returned /\ PathError = "" /\ \E a \in Aspects : st[a] = "err")
        => \A b \in Aspects : Completed(b)

\* C3: no git command is run, and no aspect entered, before both path checks
\* have passed, and none at all when a check fails.
C3_NoCommandBeforePathChecks ==
    /\ (DOMAIN hist # {} \/ \E a \in Aspects : st[a] # "idle")
          => (pathExists /\ gitExists /\ pc # "start")
    /\ (Returned /\ ~(pathExists /\ gitExists))
          => (DOMAIN hist = {} /\ result.kind = "err")

\* The path exists, it has no .git entry, and the call returned its error.
C3_Witness ==
    /\ Returned
    /\ pathExists
    /\ ~gitExists
    /\ result = Fail("Not a Git repository")
    /\ DOMAIN hist = {}

\* C4: Development Pattern Detection is entered only when Commit History has
\* completed successfully, and with the result Commit History returned.
C4_PatternsAfterHistory ==
    st[DP] # "idle" =>
        /\ st[CH] = "ok"
        /\ chResult \in CommitHistories
        /\ dpInput = chResult

\* Development Patterns is running on a commit history with commits.
C4_Witness ==
    /\ st[DP] = "running"
    /\ dpInput = <<"commits">>

RunningAspects == {a \in Aspects : st[a] = "running"}

\* C5: at most four aspects run at once, two aspects that run at once are both
\* among the four parallel ones, a sequential aspect is entered only after all
\* four parallel ones have completed, and a report exists only when every
\* analyzer has completed.
C5_JoinBarrier ==
    /\ Cardinality(RunningAspects) <= 4
    /\ Cardinality(RunningAspects) >= 2 => RunningAspects \subseteq ParallelAspects
    /\ \A a \in SequentialAspects :
           st[a] # "idle" => \A b \in ParallelAspects : Completed(b)
    /\ report # {} => \A a \in Aspects : Completed(a)

\* The four parallel aspects are running at the same time.
C5_Witness == RunningAspects = ParallelAspects

\* C6: a command that failed is never issued again with the same arguments:
\* in the executions of any argument list only the last one may have failed.
C6_NoRetry ==
    \A a \in DOMAIN hist :
        \A i \in 1..Len(hist[a]) : ~hist[a][i] => i = Len(hist[a])

\* A per-contributor query and a per-tag query failed and the call returned.
C6_Witness ==
    /\ Returned
    /\ \E a \in DOMAIN hist : a.cmd = "log-author" /\ Failed(a)
    /\ \E a \in DOMAIN hist : a.cmd = "show" /\ Failed(a)

\* C7: all window-scoped queries of one analysis carry the same since date.
C7_SameSinceEverywhere ==
    \A a, b \in WindowQueries : a.since = b.since

\* C8: no window-scoped query is issued with a since date computed from a day
\* count that is not positive.
C8_WindowPositive ==
    WindowQueries # {} => \A n \in usedDays : n >= 1

\* The detail queries issued so far.
DetailQueries == {a \in DOMAIN hist : a.cmd = "log-author"}

\* The emails whose detail query was run and succeeded, and those whose query failed.
DetailSucceeded == {a.param : a \in {q \in DetailQueries : ~Failed(q)}}

DetailFailed == {a.param : a \in {q \in DetailQueries : Failed(q)}}

RecordEmails == {contributors[i].email : i \in 1..Len(contributors)}

Pass1Failed == \E a \in DOMAIN hist : a.cmd = "log-authors" /\ Failed(a)

\* C10: a contributor whose detail query failed is left out, the others are
\* all returned, and Contributor Insights (and with it the analysis) fails
\* only when its pass-1 query failed.
C10_DetailFailureDropsContributor ==
    LET succeeded == DetailSucceeded
    IN /\ RecordEmails = succeeded
       /\ Len(contributors) = Cardinality(succeeded)
       /\ st[CI] = "ok" => succeeded \cup DetailFailed = DOMAIN counts
       /\ st[CI] = "err" => Pass1Failed
       /\ result = Fail(CI) => Pass1Failed

\* One of two detail queries failed, the other contributor was returned and
\* the whole analysis succeeded.
C10_Witness ==
    /\ Returned
    /\ result.kind = "ok"
    /\ Cardinality(DetailFailed) = 1
    /\ Len(contributors) = 1

\* The lines of the pass-1 output written for a commit with this email.
LinesOf(name, email) ==
    {k \in 1..Len(contribLog) :
        contribLog[k] \in {FormatNameEmail(name, email), Padded(name, email)}}

LinesCarrying(email) == UNION {LinesOf(n, email) : n \in AuthorNames}

----------------------------------------------------------------------------
(* The commit parser against the log it was given *)

Parsed == fn = "parse_git_log_with_stats"

\* A header line; it is well formed if it has the five fields.
IsHeader(e) == e.kind = "commit"

WellFormed(e) == IsHeader(e) /\ Len(e.fields) >= 5

\* The header line nearest above line i, 0 if there is none.
Owner(es, i) ==
    LET above == {j \in 1..(i - 1) : IsHeader(es[j])}
    IN IF above = {} THEN 0 ELSE CHOOSE j \in above : \A k \in above : k <= j

\* The numeric stat lines below header line j, up to the next header line.
Owned(es, j) == {i \in 1..Len(es) : es[i].kind = "numstat" /\ Owner(es, i) = j}

Total(es, S, F(_)) ==
    LET RECURSIVE go(_)
        go(T) == IF T = {} THEN 0
                 ELSE LET i == CHOOSE k \in T : TRUE IN F(es[i]) + go(T \ {i})
    IN go(S)

CountsOf(es, S) ==
    [files_changed |-> Cardinality(S),
     insertions |-> Total(es, S, LAMBDA e : e.ins),
     deletions |-> Total(es, S, LAMBDA e : e.del)]

Counts(r) ==
    [files_changed |-> r.files_changed, insertions |-> r.insertions,
     deletions |-> r.deletions]

\* One header line with all its fields, followed by lines of its files only.
OneBlock ==
    /\ entries # <<>>
    /\ WellFormed(entries[1])
    /\ \A i \in 2..Len(entries) : ~IsHeader(entries[i])

\* C11: a block of one header line and k stat lines yields one record whose
\* files_changed counts the numeric stat lines and whose insertions and
\* deletions are their sums; a binary marker line adds nothing and does not
\* stop the parse.
C11_BlockTotals ==
    Parsed /\ OneBlock =>
        /\ Len(out[1].value) = 1
        /\ Counts(out[1].value[1]) = CountsOf(entries, Owned(entries, 1))

\* No two commits of a log share a hash.
DistinctHashes ==
    \A i, j \in 1..Len(entries) :
        IsHeader(entries[i]) /\ IsHeader(entries[j]) /\ i # j =>
            entries[i].fields[1] # entries[j].fields[1]

\* C12: each numeric stat line is counted in exactly the record of the nearest
\* header line above it, and one above which there is no header line in none:
\* the counts of the record of a header are those of the stat lines it owns.
C12_StatsBelongToNearestHeader ==
    Parsed /\ DistinctHashes =>
        \A k \in 1..Len(out[1].value) : \A j \in 1..Len(entries) :
            IsHeader(entries[j]) /\ entries[j].fields[1] = out[1].value[k].hash =>
                Counts(out[1].value[k]) = CountsOf(entries, Owned(entries, j))

\* C13: one record per header line with the five fields, in input order and
\* whatever the hash, and none for a header with fewer fields.
C13_OneRecordPerHeader ==
    Parsed =>
        LET headers == SelectSeq(entries, WellFormed)
        IN [k \in 1..Len(out[1].value) |-> out[1].value[k].hash]
           = [k \in 1..Len(headers) |-> headers[k].fields[1]]

\* C14: the message of a record is the whole subject of its header line, with
\* every pipe in it, and hash, author, email and date are its first four fields.
C14_SubjectPreserved ==
    Parsed =>
        \A k \in 1..Len(out[1].value) : \E j \in 1..Len(entries) :
            LET r == out[1].value[k]
            IN /\ WellFormed(entries[j])
               /\ <<r.hash, r.author, r.email, r.date, r.message>> = entries[j].fields

C14_Witness ==
    /\ Parsed
    /\ \E k \in 1..Len(out[1].value) : out[1].value[k].message = PipeSubject


\* The pipe-separated fields of the line of an entry whose fields hold no pipe.
FieldCount(e) == IF e.kind \in {"numstat", "binary", "blank"} THEN 1 ELSE Len(e.fields)

WithFields(es, n) == SelectSeq(es, LAMBDA e : FieldCount(e) >= n)

----------------------------------------------------------------------------
(* Code churn against the log it was given *)

Churned == fn = "get_code_churn"

\* The numeric stat lines of a path, and the paths that have one.
StatLinesOf(path) ==
    {i \in 1..Len(entries) : entries[i].kind = "numstat" /\ entries[i].fields[1] = path}

ChangedPaths ==
    {entries[i].fields[1] : i \in {j \in 1..Len(entries) : entries[j].kind = "numstat"}}

TimesChanged(path) == Cardinality(StatLinesOf(path))

C17_HotspotsAllAboveThreshold ==
    Churned =>
        {out[1].value.hotspots[i] : i \in 1..Len(out[1].value.hotspots)}
            = {path \in ChangedPaths : TimesChanged(path) > HotspotThreshold}


----------------------------------------------------------------------------
(* The commit history against the log it was given *)

HistoryDone == fn = "get_commit_history"

\* The commits parsed from the log of the window.
ParsedCommits == parse_git_log_with_stats(Lines(entries))

\* average = commits / max(days / 7, 1), as an equation between integers.
AverageOver(avg, n) == avg.num * (IF days > 7 THEN days ELSE 7) = 7 * n * avg.den

\* C18: the average is the number of commits parsed divided by max(days/7, 1);
\* with no commit the recent commits are empty and the average is 0; the
\* divisor is positive whatever days is.
C18_AveragePerWeek ==
    HistoryDone =>
        LET h == out[1].value
            commits == ParsedCommits
        IN /\ h.average_commits_per_week.den > 0
           /\ AverageOver(h.average_commits_per_week, Len(commits))
           /\ commits = <<>> =>
                  /\ h.recent_commits = <<>>
                  /\ h.average_commits_per_week.num = 0

\* Commits were found in a window of no days.
C18_Witness ==
    /\ HistoryDone
    /\ days <= 0
    /\ out[1].value.recent_commits # <<>>
    /\ out[1].value.average_commits_per_week.num = Len(ParsedCommits)

\* YYYY-MM and YYYY-MM-DD of an ISO date.
MonthOf(date) == SubSeq(date, 1, 7)

DayOf(date) == SubSeq(date, 1, 10)

BucketsOf(commits, buckets, KeyOf(_)) ==
    LET keys == [i \in 1..Len(commits) |-> KeyOf(commits[i].date)]
    IN /\ \A i \in 1..Len(keys) : keys[i] \in DOMAIN buckets
       /\ \A key \in DOMAIN buckets :
              buckets[key] = Cardinality({i \in 1..Len(keys) : keys[i] = key})

\* C19: recent_commits holds the first min(50, n) of the n parsed commits, in
\* log order and as parsed; the month buckets, the date buckets and the
\* average count all n.
C19_RecentAndBuckets ==
    HistoryDone =>
        LET h == out[1].value
            commits == ParsedCommits
        IN /\ h.recent_commits = SubSeq(commits, 1, Min(RecentCommits, Len(commits)))
           /\ BucketsOf(commits, h.commits_by_month, MonthOf)
           /\ BucketsOf(commits, h.commits_by_day_of_week, DayOf)
           /\ AverageOver(h.average_commits_per_week, Len(commits))

\* More than 50 commits were parsed, of more than one month.
C19_Witness ==
    /\ HistoryDone
    /\ Len(out[1].value.recent_commits) = RecentCommits
    /\ Len(ParsedCommits) > RecentCommits
    /\ Cardinality(DOMAIN out[1].value.commits_by_month) > 1
    /\ \E key \in DOMAIN out[1].value.commits_by_day_of_week :
           out[1].value.commits_by_day_of_week[key] > 1


----------------------------------------------------------------------------
(* The decisions against the commits of the window *)

Decided == fn = "find_architectural_decisions"

\* The subject of the commit holds keyword k, in any case.
Matches(e, k) == Contains(ToLowercase(e.fields[4]), KeywordText[k])

----------------------------------------------------------------------------
(* The impact tier against the subject of the commit *)

\* The commits of the window with this hash (one: the hashes are distinct).
CommitsWithHash(hash) == {e \in DecisionCommits : e.fields[1] = hash}

\* C21: the impact of every decision record is the tier of the whole subject
\* of its commit ("high" when it holds breaking or major in any case, else
\* "low" when it holds minor or fix, else "medium"), subjects with a '|'
\* included, and the records of one commit carry one tier.
C21_ImpactFromSubject ==
    Decided =>
        LET decisions == out[1].value
        IN /\ \A i \in 1..Len(decisions) :
                  \A e \in CommitsWithHash(decisions[i].commit_hash) :
                      decisions[i].impact = Impact(e.fields[4])
           /\ \A i, j \in 1..Len(decisions) :
                  decisions[i].commit_hash = decisions[j].commit_hash
                      => decisions[i].impact = decisions[j].impact

----------------------------------------------------------------------------
(* The release patterns against the tags of the repository *)

Released == fn = "analyze_release_patterns"

\* The listed tags whose details were asked for and obtained, in list order:
\* the lightweight ones among the first ten whose git show succeeded.
Fetched ==
    SelectSeq([i \in 1..Min(Len(entries), TagInfoCap) |-> i],
              LAMBDA i : entries[i].kind = "shown")

\* The author date git show printed for the tag.
\* The author date git show printed for the tag, as the local time of its
\* zone.
TimeOf(e) ==
    ReleaseTimes[CHOOSE k \in 1..Len(ReleaseTimes) : ShownAt(0, k).fields[2] = e.fields[2]]

\* C22: the frequency is classified from the number of listed tags, whatever
\* number of details was fetched: Weekly above 50, Monthly above 20,
\* Quarterly above 5, Irregular otherwise; total_tags is the number of listed
\* tags and recent_tags has at most 10 entries.
C22_FrequencyFromTotal ==
    Released =>
        LET r == out[1].value
            n == Len(entries)
        IN /\ ~out[1].panicked
           /\ r.total_tags = n
           /\ Len(r.recent_tags) <= 10
           /\ n \in 0..5 => r.release_frequency = "Irregular"
           /\ n \in 6..20 => r.release_frequency = "Quarterly"
           /\ n \in 21..50 => r.release_frequency = "Monthly"
           /\ n >= 51 => r.release_frequency = "Weekly"

\* 51 tags are listed, the details of fewer than ten were obtained, and the
\* frequency is Weekly.
C22_Witness ==
    /\ Released
    /\ Len(entries) = 51
    /\ Len(out[1].value.recent_tags) < 10
    /\ out[1].value.release_frequency = "Weekly"

\* The whole days between two points of time, whichever comes first.
WholeDays(a, b) ==
    (IF a.day > b.day \/ (a.day = b.day /\ a.sec >= b.sec)
     THEN (a.day - b.day) * 86400 + a.sec - b.sec
     ELSE (b.day - a.day) * 86400 + b.sec - a.sec) \div 86400

\* The sum of the gaps between the neighbours among the fetched tags.
GapSum(fetched) ==
    LET RECURSIVE sum(_)
        sum(k) ==
            IF k >= Len(fetched) THEN 0
            ELSE WholeDays(TimeOf(entries[fetched[k]]), TimeOf(entries[fetched[k + 1]]))
                     + sum(k + 1)
    IN sum(1)

\* C23: average_days_between_releases is the mean of the absolute whole-day
\* gaps between the dates of neighbouring fetched tag records, and 0 when
\* fewer than two records were fetched; a tag whose git show fails is left out
\* of recent_tags and the analysis still returns.
C23_MeanGapOfFetched ==
    Released =>
        /\ ~out[1].panicked
        /\ LET r == out[1].value
               fetched == Fetched
           IN /\ Len(r.recent_tags) = Len(fetched)
              /\ \A k \in 1..Len(fetched) : r.recent_tags[k].name = TagNo(fetched[k])
              /\ \A i \in 1..Min(Len(entries), TagInfoCap) :
                     entries[i].kind = "failed"
                         => \A k \in 1..Len(r.recent_tags) : r.recent_tags[k].name # TagNo(i)
              /\ IF Len(fetched) < 2
                 THEN r.average_days_between_releases.num = 0
                 ELSE r.average_days_between_releases.num * (Len(fetched) - 1)
                          = GapSum(fetched) * r.average_days_between_releases.den

\* The git show of the first tag failed, the second and the third tag were
\* fetched, their dates lie days apart, and the mean is not zero.
C23_Witness ==
    /\ Released
    /\ Len(entries) >= 4
    /\ entries[1].kind = "failed"
    /\ entries[2].kind = "shown"
    /\ entries[3].kind = "shown"
    /\ WholeDays(TimeOf(entries[2]), TimeOf(entries[3])) > 0
    /\ out[1].value.recent_tags[1].name = TagNo(2)
    /\ out[1].value.average_days_between_releases.num > 0

----------------------------------------------------------------------------
(* The branch lists against the branches of the repository *)

BranchesDone == fn = "get_branch_analysis"

\* The branches git printed with all three fields, by name.
ParsedBranches == {e.fields[1] : e \in {entries[i] : i \in 1..Len(entries)} \cap
                                       {b \in {entries[i] : i \in 1..Len(entries)} :
                                           Len(b.fields) = 3}}

\* How often a branch of this name is in the list.
TimesIn(list, name) == Cardinality({k \in 1..Len(list) : list[k].name = name})

\* The date git printed for the branch is one of the commit times, and the
\* whole days from it to this reading of the clock are these.
AgedAt(e, now, age) ==
    \E c \in 1..Len(BranchTimes) :
        /\ e.fields[2] = FormatAi(BranchTimes[c], ReleaseZones[c])
        /\ IF BranchTimes[c].day > now.day THEN age = 0
           ELSE WholeDays(now, BranchTimes[c]) = age

\* C24: every parsed branch is in exactly one of active_branches and
\* stale_branches, and total_branches is the sum of their lengths; a branch
\* whose date does not parse is stale, one that is more than 30 days old at
\* every reading of the clock is stale (40 days, say), and one that is at
\* most 30 days old at every reading is active.
C24_ActiveOrStale ==
    BranchesDone =>
        /\ ~out[1].panicked
        /\ LET r == out[1].value
           IN /\ r.total_branches = Len(r.active_branches) + Len(r.stale_branches)
              /\ \A name \in ParsedBranches :
                     TimesIn(r.active_branches, name) + TimesIn(r.stale_branches, name) = 1
              /\ \A i \in 1..Len(entries) :
                     LET e == entries[i]
                     IN Len(e.fields) = 3 =>
                           /\ e.fields[2] = <<>> => TimesIn(r.stale_branches, e.fields[1]) = 1
                           /\ (\A k \in 1..Len(ClockValues) : \E age \in 31..60 :
                                   AgedAt(e, ClockValues[k], age))
                                  => TimesIn(r.stale_branches, e.fields[1]) = 1
                           /\ (\A k \in 1..Len(ClockValues) : \E age \in 0..30 :
                                   AgedAt(e, ClockValues[k], age))
                                  => TimesIn(r.active_branches, e.fields[1]) = 1

----------------------------------------------------------------------------
(* Repository Info against the outcomes of its commands *)

InfoDone == fn = "get_repository_info"

\* The commands other than the remote-URL lookup all succeeded.
RequiredSucceeded == \A i \in {1, 3, 4, 5} : entries[i].kind # "failed"

\* C25: when the remote-URL lookup fails and the other commands succeed and
\* parse, Repository Info succeeds with no remote_url; when the required
\* commands succeed, it fails exactly when the count is no integer or a
\* boundary date is not of the shape YYYY-MM-DD HH:MM:SS, whatever the text of
\* the zone offset.
C25_RemoteOptionalDatesRequired ==
    InfoDone =>
        /\ ~out[1].panicked
        /\ LET r == out[1].value
           IN /\ (/\ entries[2].kind = "failed"
                  /\ RequiredSucceeded
                  /\ entries[3] \in IntegerCounts
                  /\ entries[4] \in ShapedDates
                  /\ entries[5] \in ShapedDates)
                     => r.is_ok /\ r.it.remote_url = <<>>
              /\ RequiredSucceeded =>
                     (~r.is_ok <=> \/ entries[3] \notin IntegerCounts
                                   \/ entries[4] \notin ShapedDates
                                   \/ entries[5] \notin ShapedDates)
              /\ ~RequiredSucceeded => ~r.is_ok

\* The remote-URL lookup failed, the boundary dates carry a zone text that is
\* no offset, and Repository Info succeeded without a remote_url.
C25_Witness ==
    /\ InfoDone
    /\ entries[2].kind = "failed"
    /\ \E k \in {1, 4} : entries[4] = Printed(WithNewline(FormatAi(ReleaseTimes[k], <<"z", "z">>)))
    /\ out[1].value.is_ok
    /\ out[1].value.it.remote_url = <<>>
    /\ out[1].value.it.total_commits = 12

----------------------------------------------------------------------------
(* The Command Executor against what the process did *)

Executed == fn = "execute_git_command"

\* The bytes read as text: every character as it is, U+FFFD for a byte that
\* belongs to none.
SameText(text, bytes) ==
    /\ Len(text) = Len(bytes)
    /\ \A i \in 1..Len(bytes) : bytes[i] # InvalidByte => text[i] = bytes[i]
    /\ \A i \in 1..Len(bytes) : bytes[i] = InvalidByte => text[i] = ReplacementCharacter

\* C26: the executor returns an error exactly when the process cannot be
\* started or exits with a status other than zero, the error being the
\* standard-error text in the latter case; on status zero it returns the
\* standard output as text, an empty one included; one process is spawned
\* per call.
C26_ErrorIffNotStartedOrNonZero ==
    Executed =>
        /\ ~out[1].panicked
        /\ LET r == out[1].value
               process == entries[1]
           IN /\ ~r.is_ok <=> (~process.started \/ process.status # 0)
              /\ (process.started /\ process.status # 0) => SameText(r.it, process.stderr)
              /\ (process.started /\ process.status = 0) => SameText(r.it, process.stdout)
              /\ r.spawned = 1

\* The process exits with status zero, has printed nothing but has written a
\* warning to its standard error, and the empty output is returned.
C26_Witness ==
    /\ Executed
    /\ entries[1].started
    /\ entries[1].status = 0
    /\ entries[1].stdout = <<>>
    /\ entries[1].stderr # <<>>
    /\ out[1].value.is_ok
    /\ out[1].value.it = <<>>

----------------------------------------------------------------------------
(* Two runs of Code Churn on one log output *)

ChurnedTwice == fn = "get_code_churn, twice"

\* The paths of most_changed_files, in order.
PathsOf(churn) == [i \in 1..Len(churn.most_changed_files) |-> churn.most_changed_files[i].path]

\* C27: two runs of Code Churn on the same log output return the same
\* sequence of paths in most_changed_files: files with equal times_changed
\* come in the same order, and the same tied files survive the cut to 20.
C27_TiesStableAcrossRuns ==
    ChurnedTwice => PathsOf(out[1].value) = PathsOf(out[2].value)

----------------------------------------------------------------------------
(* The fan-out of Contributor Insights against the pass-1 output *)

\* The emails of the pass-1 output.
LoggedEmails == {e \in AuthorEmails : LinesCarrying(e) # {}}

\* The display name of the first line that carries the email.
FirstNameOf(email) ==
    CHOOSE n \in AuthorNames :
        \E k \in LinesOf(n, email) : \A j \in LinesCarrying(email) : k <= j

\* C28: in whatever order the detail queries run and end, the records
\* collected are those of the emails whose detail query succeeded, one each,
\* with the commit count and the display name pass 1 gathered for that email;
\* when Contributor Insights returns, every email of pass 1 had its query.
C28_FanOutLosesNothing ==
    /\ Len(contributors) = Cardinality(DetailSucceeded)
    /\ \A email \in DetailSucceeded :
           \E i \in 1..Len(contributors) :
               /\ contributors[i].email = email
               /\ contributors[i].total_commits = Cardinality(LinesCarrying(email))
               /\ contributors[i].name = FirstNameOf(email)
               /\ \A j \in 1..Len(contributors) : contributors[j].email = email => j = i
    /\ st[CI] = "ok" => DetailSucceeded \cup DetailFailed = LoggedEmails

\* Both emails of the log had their query succeed, one of them is carried
\* under two names, and two records were returned.
C28_Witness ==
    /\ st[CI] = "ok"
    /\ Cardinality(DetailSucceeded) = 2
    /\ Len(contributors) = 2
    /\ \E e \in LoggedEmails : \A n \in AuthorNames : LinesOf(n, e) # {}

----------------------------------------------------------------------------
(* Which error an analysis with several failing aspects returns *)

\* The order in which the results of the aspects are unwrapped.
UnwrapOrder == <<CH, CC, DP, AD, RP, RI, BA, CI>>

FailedAspects == {a \in Aspects : st[a] = "err"}

\* The failed aspect that comes first in that order.
FirstFailed ==
    UnwrapOrder[CHOOSE i \in 1..Len(UnwrapOrder) :
                    /\ UnwrapOrder[i] \in FailedAspects
                    /\ \A j \in 1..(i - 1) : UnwrapOrder[j] \notin FailedAspects]

\* C29: when aspects have failed, the error analyze_git_repository returns is
\* that of the failed aspect that comes first in the order Commit History,
\* Code Churn, Development Patterns, Architectural Decisions, Release
\* Patterns, Repository Info, Branch Analysis, Contributor Insights, in
\* whatever order the concurrent aspects ran and ended.
C29_FirstFailedInFixedOrder ==
    (Returned /\ PathError = "" /\ FailedAspects # {}) => result = Fail(FirstFailed)

\* Repository Info, Branch Analysis and Contributor Insights all failed in
\* the join, Code Churn failed after it, and the error of Code Churn is
\* returned.
C29_Witness ==
    /\ Returned
    /\ FailedAspects = {RI, BA, CI, CC}
    /\ result = Fail(CC)

----------------------------------------------------------------------------
(* Stat lines below a header line that lacks fields *)

\* A header line that lacks fields and that the parser takes for a header
\* line (it does not begin with a digit).
ShortClassified(e) == IsHeader(e) /\ ~WellFormed(e) /\ ~IsNumeric(e.fields[1][1])

\* The numeric stat lines that follow such a line, up to the next header
\* line with the five fields.
Orphans ==
    {k \in 1..Len(entries) :
        /\ entries[k].kind = "numstat"
        /\ \E i \in 1..(k - 1) :
               /\ ShortClassified(entries[i])
               /\ \A j \in (i + 1)..(k - 1) : ~WellFormed(entries[j])}

\* The log without the lines at these positions.
Without(es, S) ==
    LET keep == SelectSeq([k \in 1..Len(es) |-> k], LAMBDA k : k \notin S)
    IN [m \in 1..Len(keep) |-> es[keep[m]]]

\* C30: the numeric stat lines that follow a header line of fewer than five
\* fields, up to the next header line with five, are counted in no record
\* (the records are those of the log without these lines), and that header
\* line closes the commit before it: the record of a commit counts no stat
\* line below a short header line that follows it.
C30_ShortHeaderOrphansStats ==
    Parsed =>
        /\ out[1].value = parse_git_log_with_stats(Lines(Without(entries, Orphans)))
        /\ DistinctHashes =>
               \A r \in 1..Len(out[1].value) : \A j \in 1..Len(entries) :
                   \A i \in (j + 1)..Len(entries) :
                       (/\ WellFormed(entries[j])
                        /\ entries[j].fields[1] = out[1].value[r].hash
                        /\ ShortClassified(entries[i]))
                           => out[1].value[r].files_changed
                                  <= Cardinality({m \in (j + 1)..(i - 1) :
                                                     entries[m].kind = "numstat"})

\* A commit, a header line without date and subject, and a stat line below
\* it: one record, that of the commit, with no file.
C30_Witness ==
    /\ Parsed
    /\ Len(entries) = 3
    /\ WellFormed(entries[1])
    /\ ShortClassified(entries[2])
    /\ Orphans = {3}
    /\ Len(out[1].value) = 1
    /\ out[1].value[1].files_changed = 0

====
